---- MODULE Spec2Model ----
(***************************************************************************)
(* Page-table tree engine of hvisor-pt: the radix tree of nodes            *)
(* (imp/tree/node.rs), its paths (imp/tree/path.rs), the tree model        *)
(* (imp/tree.rs), the page table over page-table memory                    *)
(* (imp/paging/pt.rs) and the low-level state (page table, physical        *)
(* memory, translation cache) whose lemmas live in imp/ll_refine_hl.rs.    *)
(*                                                                         *)
(* Addresses are byte addresses.  The architecture is a two-level one     *)
(* with two entries per table; a last-level frame is one word (8 bytes)    *)
(* and a first-level block is two words, so that every arithmetic case     *)
(* (index extraction, alignment, overlap, translation) is exercised on a   *)
(* state space TLC can enumerate.                                          *)
(***************************************************************************)
EXTENDS Integers, Sequences, FiniteSets, TLC

VARIABLES root, tlb, mem, pt_mem, hl, last

vars == <<root, tlb, mem, pt_mem, hl, last>>

-----------------------------------------------------------------------------
(* Bounds of the model.                                                    *)

\* Number of last-level frames that fit the configured physical memory.
PMemPages == 2
\* Largest number of tables page-table memory holds (root included).
MaxTables == 3

-----------------------------------------------------------------------------
(* Architecture descriptor (PTArch) and address arithmetic.                *)

WORD_SIZE == 8

level_count == 2

entry_count(level) == 2

frame_size(level) == IF level = 0 THEN 2 * WORD_SIZE ELSE WORD_SIZE

Levels == 0 .. (level_count - 1)

is_valid_frame_size(size) == \E l \in Levels : frame_size(l) = size

level_of_frame_size(size) == CHOOSE l \in Levels : frame_size(l) = size

pte_index_of_va(vaddr, level) == (vaddr \div frame_size(level)) % entry_count(level)

vbase_of_va(vaddr, level) == (vaddr \div frame_size(level)) * frame_size(level)

aligned(addr, size) == addr % size = 0

within(addr, base, size) == base <= addr /\ addr < base + size

overlap(base1, size1, base2, size2) ==
    IF base1 <= base2 THEN base2 < base1 + size1 ELSE base1 < base2 + size2

word_idx(addr) == addr \div WORD_SIZE

translate(vaddr, vbase, pbase) == (vaddr - vbase) + pbase

pmem_lb == 0

pmem_ub == PMemPages * WORD_SIZE

\* Size of the virtual address space the root table spans.
VSpace == entry_count(0) * frame_size(0)

\* Virtual addresses handed to query: word bases and the middle of each word.
VAddrs == {a \in 0 .. (VSpace - 1) : a % (WORD_SIZE \div 2) = 0}

\* Word-aligned virtual addresses, handed to read, write, map and unmap.
VWordAddrs == {a \in VAddrs : aligned(a, WORD_SIZE)}

-----------------------------------------------------------------------------
(* Frames.                                                                 *)

AttrRW == [readable |-> TRUE, writable |-> TRUE, executable |-> FALSE, user_accessible |-> TRUE]

AttrRO == [readable |-> TRUE, writable |-> FALSE, executable |-> FALSE, user_accessible |-> TRUE]

Attrs == {AttrRW, AttrRO}

Frame(base, size, attr) == [base |-> base, size |-> size, attr |-> attr]

\* Frames a caller may pass to map: supported size, base aligned to the size,
\* physical range inside [pmem_lb, pmem_ub).
Frames ==
    {Frame(b, frame_size(l), a) : b \in pmem_lb .. pmem_ub, l \in Levels, a \in Attrs}

ValidFrames ==
    {f \in Frames : /\ aligned(f.base, f.size)
                    /\ f.base >= pmem_lb
                    /\ f.base + f.size <= pmem_ub}

\* The frames the operations are driven with: every valid base and size, the
\* frames at even word bases readable and writable, those at odd ones read-only.
InputFrames ==
    {f \in ValidFrames :
        f.attr = IF (f.base \div WORD_SIZE) % 2 = 0 THEN AttrRW ELSE AttrRO}

-----------------------------------------------------------------------------
(* Node entries and nodes (imp/tree/node.rs).                              *)

Empty == [tag |-> "Empty"]

FrameEntry(frame) == [tag |-> "Frame", frame |-> frame]

NodeEntry(node) == [tag |-> "Node", node |-> node]

Ok == "Ok"

Err == "Err"

new(level) == [level |-> level, entries |-> [i \in 1 .. entry_count(level) |-> Empty]]

update(self, index, entry) == [self EXCEPT !.entries[index + 1] = entry]

is_entry_valid(entry, level) ==
    CASE entry.tag = "Node" ->
            IF level < level_count - 1 THEN entry.node.level = level + 1 ELSE FALSE
      [] entry.tag = "Frame" ->
            /\ entry.frame.size = frame_size(level)
            /\ aligned(entry.frame.base, entry.frame.size)
            /\ entry.frame.base >= pmem_lb
            /\ entry.frame.base + entry.frame.size <= pmem_ub
      [] OTHER -> TRUE

RECURSIVE invariants(_)
invariants(self) ==
    /\ self.level < level_count
    /\ Len(self.entries) = entry_count(self.level)
    /\ \A i \in 1 .. Len(self.entries) :
          /\ is_entry_valid(self.entries[i], self.level)
          /\ self.entries[i].tag = "Node" => invariants(self.entries[i].node)

-----------------------------------------------------------------------------
(* Paths (imp/tree/path.rs).  A path is a sequence of entry indices.       *)

step(path) == <<path[1], Tail(path)>>

trim(path, len) == SubSeq(path, 1, len)

valid(path, start_level) ==
    /\ Len(path) > 0
    /\ Len(path) + start_level <= level_count
    /\ \A i \in 1 .. Len(path) : path[i] < entry_count((i - 1) + start_level)

has_prefix(self, p) ==
    /\ 0 < Len(p)
    /\ Len(p) <= Len(self)
    /\ \A i \in 1 .. Len(p) : self[i] = p[i]

\* The first position at which two paths differ, counted from 0.
first_diff_idx(a, b) ==
    CHOOSE i \in 0 .. (Len(a) - 1) :
        /\ i < Len(b)
        /\ a[i + 1] # b[i + 1]
        /\ \A j \in 0 .. (i - 1) : a[j + 1] = b[j + 1]

is_zero(path) == \A i \in 1 .. Len(path) : path[i] = 0

from_vaddr(vaddr, level) == [i \in 1 .. (level + 1) |-> pte_index_of_va(vaddr, i - 1)]

RECURSIVE fold_left_sum(_, _)
fold_left_sum(parts, sum) ==
    IF Len(parts) = 0 THEN sum ELSE fold_left_sum(Tail(parts), sum + parts[1])

\* to_vaddr that weighs the indices with the frame sizes in reverse order of
\* the levels.
to_vaddr_reversed_sizes(path) ==
    LET parts == [i \in 1 .. Len(path) |-> path[i] * frame_size(level_count - i)]
    IN  fold_left_sum(parts, 0)

\* to_vaddr that weighs every index with the frame size of the last level.
to_vaddr_last_level_size(path) ==
    LET parts == [i \in 1 .. Len(path) |-> path[i] * frame_size(level_count - 1)]
    IN  fold_left_sum(parts, 0)

to_vaddr(path) ==
    LET parts == [i \in 1 .. Len(path) |-> path[i] * frame_size(i - 1)]
    IN  fold_left_sum(parts, 0)

\* Every path that is valid from a node of level start_level.
RECURSIVE PathsFrom(_, _)
PathsFrom(start_level, len) ==
    IF len = 0 THEN {<<>>}
    ELSE {<<i>> \o p : i \in 0 .. (entry_count(start_level) - 1),
                       p \in PathsFrom(start_level + 1, len - 1)}

ValidPaths(start_level) ==
    UNION {PathsFrom(start_level, len) : len \in 1 .. (level_count - start_level)}

-----------------------------------------------------------------------------
(* Visit, insert and remove on nodes (imp/tree/node.rs).  A result that    *)
(* the code returns as a pair (node, res) is the record [node, res].       *)

Last(s) == s[Len(s)]

\* recursive_visit that never descends into a child node.
recursive_visit_no_descent(self, path) == <<self.entries[step(path)[1] + 1]>>

RECURSIVE recursive_visit(_, _)
recursive_visit(self, path) ==
    LET idx == step(path)[1]
        remain == step(path)[2]
        entry == self.entries[idx + 1]
    IN  IF Len(path) <= 1 THEN <<entry>>
        ELSE IF entry.tag = "Node"
             THEN <<entry>> \o recursive_visit(entry.node, remain)
             ELSE <<entry>>

\* recursive_insert that descends into a fresh table where a table already exists.
RECURSIVE recursive_insert_fresh_child(_, _, _)
recursive_insert_fresh_child(self, path, frame) ==
    LET idx == step(path)[1]
        remain == step(path)[2]
        entry == self.entries[idx + 1]
    IN  IF Len(path) <= 1
        THEN IF entry.tag = "Empty"
             THEN [node |-> update(self, idx, FrameEntry(frame)), res |-> Ok]
             ELSE [node |-> self, res |-> Err]
        ELSE CASE entry.tag \in {"Node", "Empty"} ->
                    LET r == recursive_insert_fresh_child(new(self.level + 1), remain, frame)
                    IN  [node |-> update(self, idx, NodeEntry(r.node)), res |-> r.res]
               [] OTHER -> [node |-> self, res |-> Err]

\* recursive_insert that gives the table it creates under an empty slot the
\* level of its parent.
RECURSIVE recursive_insert_same_level_child(_, _, _)
recursive_insert_same_level_child(self, path, frame) ==
    LET idx == step(path)[1]
        remain == step(path)[2]
        entry == self.entries[idx + 1]
    IN  IF Len(path) <= 1
        THEN IF entry.tag = "Empty"
             THEN [node |-> update(self, idx, FrameEntry(frame)), res |-> Ok]
             ELSE [node |-> self, res |-> Err]
        ELSE CASE entry.tag = "Node" ->
                    LET r == recursive_insert_same_level_child(entry.node, remain, frame)
                    IN  [node |-> update(self, idx, NodeEntry(r.node)), res |-> r.res]
               [] entry.tag = "Empty" ->
                    LET r == recursive_insert_same_level_child(new(self.level), remain, frame)
                    IN  [node |-> update(self, idx, NodeEntry(r.node)), res |-> r.res]
               [] OTHER -> [node |-> self, res |-> Err]

RECURSIVE recursive_insert(_, _, _)
recursive_insert(self, path, frame) ==
    LET idx == step(path)[1]
        remain == step(path)[2]
        entry == self.entries[idx + 1]
    IN  IF Len(path) <= 1
        THEN IF entry.tag = "Empty"
             THEN [node |-> update(self, idx, FrameEntry(frame)), res |-> Ok]
             ELSE [node |-> self, res |-> Err]
        ELSE CASE entry.tag = "Node" ->
                    LET r == recursive_insert(entry.node, remain, frame)
                    IN  [node |-> update(self, idx, NodeEntry(r.node)), res |-> r.res]
               [] entry.tag = "Empty" ->
                    LET r == recursive_insert(new(self.level + 1), remain, frame)
                    IN  [node |-> update(self, idx, NodeEntry(r.node)), res |-> r.res]
               [] OTHER -> [node |-> self, res |-> Err]

\* recursive_remove that reports Ok for a frame and leaves it in its slot.
RECURSIVE recursive_remove_keeps_frame(_, _)
recursive_remove_keeps_frame(self, path) ==
    LET idx == step(path)[1]
        remain == step(path)[2]
        entry == self.entries[idx + 1]
    IN  IF Len(path) <= 1
        THEN IF entry.tag = "Frame"
             THEN [node |-> self, res |-> Ok]
             ELSE [node |-> self, res |-> Err]
        ELSE CASE entry.tag = "Node" ->
                    LET r == recursive_remove_keeps_frame(entry.node, remain)
                    IN  [node |-> update(self, idx, NodeEntry(r.node)), res |-> r.res]
               [] entry.tag = "Frame" ->
                    IF is_zero(remain)
                    THEN [node |-> self, res |-> Ok]
                    ELSE [node |-> self, res |-> Err]
               [] OTHER -> [node |-> self, res |-> Err]

\* recursive_remove that clears the slot it reaches even when it reports Err.
RECURSIVE recursive_remove_clears_on_err(_, _)
recursive_remove_clears_on_err(self, path) ==
    LET idx == step(path)[1]
        remain == step(path)[2]
        entry == self.entries[idx + 1]
    IN  IF Len(path) <= 1
        THEN IF entry.tag = "Frame"
             THEN [node |-> update(self, idx, Empty), res |-> Ok]
             ELSE [node |-> update(self, idx, Empty), res |-> Err]
        ELSE CASE entry.tag = "Node" ->
                    LET r == recursive_remove_clears_on_err(entry.node, remain)
                    IN  [node |-> update(self, idx, NodeEntry(r.node)), res |-> r.res]
               [] entry.tag = "Frame" ->
                    IF is_zero(remain)
                    THEN [node |-> update(self, idx, Empty), res |-> Ok]
                    ELSE [node |-> update(self, idx, Empty), res |-> Err]
               [] OTHER -> [node |-> self, res |-> Err]

\* recursive_remove that replaces a child left without entries by Empty.
RECURSIVE recursive_remove_prunes_empty_child(_, _)
recursive_remove_prunes_empty_child(self, path) ==
    LET idx == step(path)[1]
        remain == step(path)[2]
        entry == self.entries[idx + 1]
    IN  IF Len(path) <= 1
        THEN IF entry.tag = "Frame"
             THEN [node |-> update(self, idx, Empty), res |-> Ok]
             ELSE [node |-> self, res |-> Err]
        ELSE CASE entry.tag = "Node" ->
                    LET r == recursive_remove_prunes_empty_child(entry.node, remain)
                    IN  IF r.res = Ok /\ \A i \in 1 .. Len(r.node.entries) : r.node.entries[i] = Empty
                        THEN [node |-> update(self, idx, Empty), res |-> r.res]
                        ELSE [node |-> update(self, idx, NodeEntry(r.node)), res |-> r.res]
               [] entry.tag = "Frame" ->
                    IF is_zero(remain)
                    THEN [node |-> update(self, idx, Empty), res |-> Ok]
                    ELSE [node |-> self, res |-> Err]
               [] OTHER -> [node |-> self, res |-> Err]

\* remove that clears a frame met before the end of the path whatever the
\* remaining indices are.
RECURSIVE recursive_remove_ignores_remain(_, _)
recursive_remove_ignores_remain(self, path) ==
    LET idx == step(path)[1]
        remain == step(path)[2]
        entry == self.entries[idx + 1]
    IN  IF Len(path) <= 1
        THEN IF entry.tag = "Frame"
             THEN [node |-> update(self, idx, Empty), res |-> Ok]
             ELSE [node |-> self, res |-> Err]
        ELSE CASE entry.tag = "Node" ->
                    LET r == recursive_remove_ignores_remain(entry.node, remain)
                    IN  [node |-> update(self, idx, NodeEntry(r.node)), res |-> r.res]
               [] entry.tag = "Frame" ->
                    [node |-> update(self, idx, Empty), res |-> Ok]
               [] OTHER -> [node |-> self, res |-> Err]

RECURSIVE recursive_remove(_, _)
recursive_remove(self, path) ==
    LET idx == step(path)[1]
        remain == step(path)[2]
        entry == self.entries[idx + 1]
    IN  IF Len(path) <= 1
        THEN IF entry.tag = "Frame"
             THEN [node |-> update(self, idx, Empty), res |-> Ok]
             ELSE [node |-> self, res |-> Err]
        ELSE CASE entry.tag = "Node" ->
                    LET r == recursive_remove(entry.node, remain)
                    IN  [node |-> update(self, idx, NodeEntry(r.node)), res |-> r.res]
               [] entry.tag = "Frame" ->
                    IF is_zero(remain)
                    THEN [node |-> update(self, idx, Empty), res |-> Ok]
                    ELSE [node |-> self, res |-> Err]
               [] OTHER -> [node |-> self, res |-> Err]

real_path(self, path) == trim(path, Len(recursive_visit(self, path)))

\* is_frame_path without the comparison of the length of the visit with the
\* length of the path.
is_frame_path_any_length(self, path) ==
    /\ valid(path, self.level)
    /\ Last(recursive_visit(self, path)).tag = "Frame"

is_frame_path(self, path) ==
    /\ valid(path, self.level)
    /\ Last(recursive_visit(self, path)).tag = "Frame"
    /\ Len(recursive_visit(self, path)) = Len(path)

\* The map path -> frame, as a function on the frame paths of the node.
path_mappings(self) ==
    [path \in {p \in ValidPaths(self.level) : is_frame_path(self, p)} |->
        Last(recursive_visit(self, path)).frame]

contains_pair(m, k, v) == k \in DOMAIN m /\ m[k] = v

\* m.insert(k, v) of a map.
map_insert(m, k, v) == [x \in (DOMAIN m) \cup {k} |-> IF x = k THEN v ELSE m[x]]

\* m.remove(k) of a map.
map_remove(m, k) == [x \in (DOMAIN m) \ {k} |-> m[x]]

-----------------------------------------------------------------------------
(* The tree model (imp/tree.rs): its own visit, insert and remove on       *)
(* nodes, and map, unmap and query on the tree whose root is a node of     *)
(* level 0.  A Result is the record [res |-> Ok, ...] or [res |-> Err].    *)

RECURSIVE tree_recursive_visit(_, _)
tree_recursive_visit(self, path) ==
    IF Len(path) = 0 THEN <<>>
    ELSE LET idx == step(path)[1]
             remain == step(path)[2]
             entry == self.entries[idx + 1]
         IN  IF entry.tag = "Node"
             THEN <<entry>> \o tree_recursive_visit(entry.node, remain)
             ELSE <<entry>>

RECURSIVE tree_recursive_insert(_, _, _)
tree_recursive_insert(self, path, entry) ==
    LET idx == step(path)[1]
        remain == step(path)[2]
        entry2 == self.entries[idx + 1]
    IN  IF Len(path) <= 1
        THEN IF entry2.tag = "Empty" THEN update(self, idx, entry) ELSE self
        ELSE CASE entry2.tag = "Node" ->
                    update(self, idx, NodeEntry(tree_recursive_insert(entry2.node, remain, entry)))
               [] entry2.tag = "Empty" ->
                    update(self, idx,
                           NodeEntry(tree_recursive_insert(new(self.level + 1), remain, entry)))
               [] OTHER -> self

\* tree_recursive_remove that drops the child table it descends into.
tree_recursive_remove_prune(self, path) ==
    LET idx == step(path)[1]
        remain == step(path)[2]
        entry == self.entries[idx + 1]
    IN  IF Len(path) <= 1 THEN update(self, idx, Empty)
        ELSE IF entry.tag = "Node" THEN update(self, idx, Empty) ELSE self

RECURSIVE tree_recursive_remove(_, _)
tree_recursive_remove(self, path) ==
    LET idx == step(path)[1]
        remain == step(path)[2]
        entry == self.entries[idx + 1]
    IN  IF Len(path) <= 1 THEN update(self, idx, Empty)
        ELSE IF entry.tag = "Node"
             THEN update(self, idx, NodeEntry(tree_recursive_remove(entry.node, remain)))
             ELSE self

tree_invariants(self) == self.level = 0 /\ invariants(self)

\* query that reports the queried address itself as the base of the mapping.
query_vaddr_as_base(self, vaddr) ==
    LET path == from_vaddr(vaddr, level_count - 1)
        visited == tree_recursive_visit(self, path)
    IN  IF Last(visited).tag = "Frame"
        THEN [res |-> Ok, base |-> vaddr, frame |-> Last(visited).frame]
        ELSE [res |-> Err]

query(self, vaddr) ==
    LET path == from_vaddr(vaddr, level_count - 1)
        visited == tree_recursive_visit(self, path)
    IN  IF Last(visited).tag = "Frame"
        THEN [res |-> Ok,
              base |-> vbase_of_va(vaddr, Len(visited) - 1),
              frame |-> Last(visited).frame]
        ELSE [res |-> Err]

\* map that takes a slot for free as soon as the walk does not end in a frame.
map_skips_node_check(self, vbase, frame) ==
    LET path == from_vaddr(vbase, level_of_frame_size(frame.size))
        entry == FrameEntry(frame)
        visited == tree_recursive_visit(self, path)
    IN  IF Last(visited).tag # "Frame"
        THEN [res |-> Ok, tree |-> tree_recursive_insert(self, path, entry)]
        ELSE [res |-> Err]

\* map that always inserts at the last level, whatever the size of the frame.
map_at_last_level(self, vbase, frame) ==
    LET path == from_vaddr(vbase, level_count - 1)
        entry == FrameEntry(frame)
        visited == tree_recursive_visit(self, path)
    IN  IF Last(visited).tag = "Empty"
        THEN [res |-> Ok, tree |-> tree_recursive_insert(self, path, entry)]
        ELSE [res |-> Err]

map(self, vbase, frame) ==
    LET path == from_vaddr(vbase, level_of_frame_size(frame.size))
        entry == FrameEntry(frame)
        visited == tree_recursive_visit(self, path)
    IN  IF Last(visited).tag = "Empty"
        THEN [res |-> Ok, tree |-> tree_recursive_insert(self, path, entry)]
        ELSE [res |-> Err]

\* unmap that always removes along the full-depth path of vbase.
unmap_full_depth(self, vbase) ==
    LET q == query(self, vbase)
    IN  IF q.res = Ok
        THEN LET path == from_vaddr(vbase, level_count - 1)
             IN  [res |-> Ok, tree |-> tree_recursive_remove(self, path)]
        ELSE [res |-> Err]

unmap(self, vbase) ==
    LET q == query(self, vbase)
    IN  IF q.res = Ok
        THEN LET path == from_vaddr(vbase, level_of_frame_size(q.frame.size))
             IN  [res |-> Ok, tree |-> tree_recursive_remove(self, path)]
        ELSE [res |-> Err]

-----------------------------------------------------------------------------
(* The low-level state: the page table (the tree `root`), the physical     *)
(* memory `mem` (a sequence of words) and the translation cache `tlb` (a   *)
(* map from virtual base to frame).  `last` records the operation that led *)
(* to the state, its arguments and what it returned.                       *)

None == "none"

EmptyMap == <<>>

\* The page table read as a map from virtual base to frame.
pt_interpret(self) ==
    LET pm == path_mappings(self)
    IN  [vbase \in {to_vaddr(p) : p \in DOMAIN pm} |->
            pm[CHOOSE p \in DOMAIN pm : to_vaddr(p) = vbase]]

has_mapping_for(mappings, vaddr) ==
    \E base \in DOMAIN mappings : within(vaddr, base, mappings[base].size)

mapping_for(mappings, vaddr) ==
    LET base == CHOOSE b \in DOMAIN mappings : within(vaddr, b, mappings[b].size)
    IN  <<base, mappings[base]>>

\* overlaps_pmem that only compares the bases of the frames.
overlaps_pmem_same_base(mappings, frame) ==
    \E base \in DOMAIN mappings : mappings[base].base = frame.base

overlaps_pmem(mappings, frame) ==
    \E base \in DOMAIN mappings :
        overlap(mappings[base].base, mappings[base].size, frame.base, frame.size)

overlaps_vmem(mappings, vaddr, frame) ==
    \E base \in DOMAIN mappings :
        overlap(base, mappings[base].size, vaddr, frame.size)

tlb_is_submap_of_pt(pt, cache) ==
    \A base \in DOMAIN cache : contains_pair(pt_interpret(pt), base, cache[base])

\* The physical word a virtual address resolves to under mapping <<base, frame>>.
pidx_of(vaddr, m) == word_idx(translate(vaddr, m[1], m[2].base))

\* What an operation leaves in `last`: its name, its address or path argument,
\* its frame and value arguments, its Ok/Err result and the payload it returned.
Record(op, arg, frame, value, res, out) ==
    [op |-> op, arg |-> arg, frame |-> frame, value |-> value, res |-> res, out |-> out]

InitMem == [i \in 1 .. (pmem_ub \div WORD_SIZE) |-> 0]

\* The values written to physical memory words.
Values == {0, 1}

LLInit ==
    /\ root = new(0)
    /\ tlb = EmptyMap
    /\ mem = InitMem
    /\ pt_mem = None
    /\ hl = None
    /\ last = Record("init", None, None, None, None, None)

\* The mapping an access to vaddr resolves to: the cache's if it has one, else
\* the page table's; None when neither covers vaddr.
resolve(pt, cache, vaddr) ==
    IF has_mapping_for(cache, vaddr) THEN mapping_for(cache, vaddr)
    ELSE IF has_mapping_for(pt_interpret(pt), vaddr)
         THEN mapping_for(pt_interpret(pt), vaddr)
         ELSE None

\* The cache after an access to vaddr: a miss the page table resolves refills it.
refill(pt, cache, vaddr) ==
    IF ~has_mapping_for(cache, vaddr) /\ has_mapping_for(pt_interpret(pt), vaddr)
    THEN LET m == mapping_for(pt_interpret(pt), vaddr) IN map_insert(cache, m[1], m[2])
    ELSE cache

\* A read of vaddr resolved through mapping m (None: no mapping): Ok and the
\* word when the physical word is in range and the frame readable and user
\* accessible, Err otherwise.
read_through(memory, vaddr, m) ==
    IF /\ m # None
       /\ pidx_of(vaddr, m) < Len(memory)
       /\ m[2].attr.readable
       /\ m[2].attr.user_accessible
    THEN [res |-> Ok, out |-> memory[pidx_of(vaddr, m) + 1]]
    ELSE [res |-> Err, out |-> None]

\* A write of value to vaddr resolved through mapping m: the result and the
\* memory after it.
write_through(memory, vaddr, value, m) ==
    IF /\ m # None
       /\ pidx_of(vaddr, m) < Len(memory)
       /\ m[2].attr.writable
       /\ m[2].attr.user_accessible
    THEN [res |-> Ok, mem |-> [memory EXCEPT ![pidx_of(vaddr, m) + 1] = value]]
    ELSE [res |-> Err, mem |-> memory]

Read(vaddr) ==
    LET r == read_through(mem, vaddr, resolve(root, tlb, vaddr))
    IN  /\ aligned(vaddr, WORD_SIZE)
        /\ tlb' = refill(root, tlb, vaddr)
        /\ last' = Record("read", vaddr, None, None, r.res, r.out)
        /\ UNCHANGED <<root, mem, pt_mem, hl>>

Write(vaddr, value) ==
    LET w == write_through(mem, vaddr, value, resolve(root, tlb, vaddr))
    IN  /\ aligned(vaddr, WORD_SIZE)
        /\ tlb' = refill(root, tlb, vaddr)
        /\ mem' = w.mem
        /\ last' = Record("write", vaddr, None, value, w.res, None)
        /\ UNCHANGED <<root, pt_mem, hl>>

Map(vbase, frame) ==
    LET r == map(root, vbase, frame)
    IN  /\ frame \in ValidFrames
        /\ aligned(vbase, frame.size)
        /\ root' = IF r.res = Ok THEN r.tree ELSE root
        /\ last' = Record("map", vbase, frame, None, r.res, None)
        /\ UNCHANGED <<tlb, mem, pt_mem, hl>>

\* The cache without the entries whose base lies in [base, base + size).
evict_range(cache, base, size) ==
    [b \in {x \in DOMAIN cache : ~within(x, base, size)} |-> cache[b]]

\* unmap evicts the cache entries under the mapping it removes; `out` is the
\* number of entries evicted.
Unmap(vbase) ==
    LET q == query(root, vbase)
        r == unmap(root, vbase)
        cache == IF r.res = Ok THEN evict_range(tlb, q.base, q.frame.size) ELSE tlb
    IN  /\ root' = IF r.res = Ok THEN r.tree ELSE root
        /\ tlb' = cache
        /\ last' = Record("unmap", vbase, None, None, r.res,
                          Cardinality(DOMAIN tlb) - Cardinality(DOMAIN cache))
        /\ UNCHANGED <<mem, pt_mem, hl>>

Query(vaddr) ==
    LET q == query(root, vaddr)
    IN  /\ last' = Record("query", vaddr, None, None, q.res,
                          IF q.res = Ok THEN <<q.base, q.frame>> ELSE None)
        /\ UNCHANGED <<root, tlb, mem, pt_mem, hl>>

TlbEvict(base) ==
    /\ base \in DOMAIN tlb
    /\ tlb' = map_remove(tlb, base)
    /\ last' = Record("tlb_evict", base, None, None, None, None)
    /\ UNCHANGED <<root, mem, pt_mem, hl>>

\* The page table alone: map, unmap and query on the tree.
Next ==
    \/ \E vbase \in VWordAddrs, frame \in InputFrames : Map(vbase, frame)
    \/ \E vbase \in VWordAddrs : Unmap(vbase)
    \/ \E vaddr \in VAddrs : Query(vaddr)

Spec == LLInit /\ [][Next]_vars

\* The low-level state machine: the page table operations, the memory accesses
\* and the eviction of a cache entry.
\* It is driven with the addresses under the first entry of the root table.
LLVAddrs == {a \in VWordAddrs : a < frame_size(0)}

LLNext ==
    \/ \E vaddr \in LLVAddrs : Read(vaddr)
    \/ \E vaddr \in LLVAddrs, value \in Values : Write(vaddr, value)
    \/ \E vbase \in LLVAddrs, frame \in InputFrames : Map(vbase, frame)
    \/ \E vbase \in LLVAddrs : Unmap(vbase)
    \/ \E vaddr \in LLVAddrs : Query(vaddr)
    \/ \E base \in LLVAddrs : TlbEvict(base)

SpecLL == LLInit /\ [][LLNext]_vars

\* The node operations alone: insert and remove along every valid path.
NodeInsert(path, frame) ==
    LET r == recursive_insert(root, path, frame)
    IN  /\ valid(path, root.level)
        /\ is_entry_valid(FrameEntry(frame), root.level + Len(path) - 1)
        /\ root' = r.node
        /\ last' = Record("insert", path, frame, None, r.res, None)
        /\ UNCHANGED <<tlb, mem, pt_mem, hl>>

NodeRemove(path) ==
    LET r == recursive_remove(root, path)
    IN  /\ valid(path, root.level)
        /\ root' = r.node
        /\ last' = Record("remove", path, None, None, r.res, None)
        /\ UNCHANGED <<tlb, mem, pt_mem, hl>>

NodeNext ==
    \/ \E path \in ValidPaths(0), frame \in InputFrames : NodeInsert(path, frame)
    \/ \E path \in ValidPaths(0) : NodeRemove(path)

SpecNode == LLInit /\ [][NodeNext]_vars

\* The path functions alone: from_vaddr on an address and a level, to_vaddr on
\* the path it returned, and to_vaddr on two paths that are not prefixes of
\* each other.  The addresses span twice the address space of the root table.
PathVAddrs == 0 .. (2 * VSpace - 1)

PathFromVAddr(vaddr, level) ==
    /\ last' = Record("from_vaddr", vaddr, None, level, None, from_vaddr(vaddr, level))
    /\ UNCHANGED <<root, tlb, mem, pt_mem, hl>>

\* `out` is the pair of the path and the address to_vaddr gives for it.
PathToVAddr ==
    /\ last.op = "from_vaddr"
    /\ last' = Record("to_vaddr", last.arg, None, last.value, None,
                      <<last.out, to_vaddr(last.out)>>)
    /\ UNCHANGED <<root, tlb, mem, pt_mem, hl>>

\* `arg` and `value` are the two paths, `res` their first differing index and
\* `out` the pair of their addresses.
PathOrder(a, b) ==
    /\ valid(a, 0)
    /\ valid(b, 0)
    /\ ~has_prefix(a, b)
    /\ ~has_prefix(b, a)
    /\ last' = Record("order", a, None, b, first_diff_idx(a, b),
                      <<to_vaddr(a), to_vaddr(b)>>)
    /\ UNCHANGED <<root, tlb, mem, pt_mem, hl>>

PathNext ==
    \/ \E vaddr \in PathVAddrs, level \in Levels : PathFromVAddr(vaddr, level)
    \/ PathToVAddr
    \/ \E a \in ValidPaths(0), b \in ValidPaths(0) : PathOrder(a, b)

SpecPath == LLInit /\ [][PathNext]_vars

-----------------------------------------------------------------------------
(* The page table over page-table memory (imp/paging/pt.rs).               *)
(* Page-table memory is the sequence of its tables; the table of base b is *)
(* tables[b + 1] and holds its level and its words; the root is table 0.   *)
(* An entry is the record [addr, attr, huge, valid]; a word is its         *)
(* encoding as an integer.                                                 *)

AttrDefault ==
    [readable |-> FALSE, writable |-> FALSE, executable |-> FALSE, user_accessible |-> FALSE]

bit(b) == IF b THEN 1 ELSE 0

spec_new(addr, attr, huge) == [addr |-> addr, attr |-> attr, huge |-> huge, valid |-> TRUE]

spec_empty == [addr |-> 0, attr |-> AttrDefault, huge |-> FALSE, valid |-> FALSE]

spec_to_u64(pte) ==
    bit(pte.valid) + 2 * bit(pte.huge)
        + 4 * bit(pte.attr.readable) + 8 * bit(pte.attr.writable)
        + 16 * bit(pte.attr.executable) + 32 * bit(pte.attr.user_accessible)
        + 64 * pte.addr

spec_from_u64(word) ==
    [addr |-> word \div 64,
     attr |-> [readable |-> (word \div 4) % 2 = 1,
               writable |-> (word \div 8) % 2 = 1,
               executable |-> (word \div 16) % 2 = 1,
               user_accessible |-> (word \div 32) % 2 = 1],
     huge |-> (word \div 2) % 2 = 1,
     valid |-> word % 2 = 1]

\* new_table filled with a word that decodes as valid.
new_table_valid_entries(level) ==
    [level |-> level,
     words |-> [i \in 1 .. entry_count(level) |-> spec_to_u64(spec_new(0, AttrDefault, FALSE))]]

new_table(level) ==
    [level |-> level, words |-> [i \in 1 .. entry_count(level) |-> spec_to_u64(spec_empty)]]

pt_mem_new == [tables |-> <<new_table(0)>>]

pt_mem_root(pm) == 0

contains_table(pm, base) == base \in 0 .. (Len(pm.tables) - 1)

table(pm, base) == pm.tables[base + 1]

pt_mem_read(pm, base, idx) == pm.tables[base + 1].words[idx + 1]

pt_mem_write(pm, base, idx, word) == [pm EXCEPT !.tables[base + 1].words[idx + 1] = word]

\* The memory with one more table, of the given level and empty, and its base.
alloc_table(pm, level) ==
    [pt_mem |-> [pm EXCEPT !.tables = Append(pm.tables, new_table(level))],
     base |-> Len(pm.tables)]

\* walk that descends through every valid entry, block descriptors included.
RECURSIVE pt_walk_ignores_huge(_, _, _, _)
pt_walk_ignores_huge(pm, vaddr, base, level) ==
    LET pte == spec_from_u64(pt_mem_read(pm, base, pte_index_of_va(vaddr, level)))
    IN  IF level < level_count - 1 /\ pte.valid
        THEN pt_walk_ignores_huge(pm, vaddr, pte.addr, level + 1)
        ELSE <<pte, level>>

RECURSIVE pt_walk(_, _, _, _)
pt_walk(pm, vaddr, base, level) ==
    LET pte == spec_from_u64(pt_mem_read(pm, base, pte_index_of_va(vaddr, level)))
    IN  IF level < level_count - 1 /\ pte.valid /\ ~pte.huge
        THEN pt_walk(pm, vaddr, pte.addr, level + 1)
        ELSE <<pte, level>>

\* insert that allocates the intermediate table at the level of its parent.
RECURSIVE pt_insert_alloc_same_level(_, _, _, _, _, _)
pt_insert_alloc_same_level(pm, vbase, base, level, target_level, new_pte) ==
    LET idx == pte_index_of_va(vbase, level)
        pte == spec_from_u64(pt_mem_read(pm, base, idx))
    IN  IF level >= target_level
        THEN IF pte.valid
             THEN [pt |-> pt_mem_write(pm, base, idx, spec_to_u64(new_pte)), res |-> Ok]
             ELSE [pt |-> pm, res |-> Err]
        ELSE IF pte.valid
             THEN IF pte.huge
                  THEN [pt |-> pm, res |-> Err]
                  ELSE pt_insert_alloc_same_level(pm, vbase, pte.addr, level + 1, target_level, new_pte)
             ELSE LET a == alloc_table(pm, level)
                      linked == pt_mem_write(a.pt_mem, base, idx,
                                             spec_to_u64(spec_new(a.base, AttrDefault, FALSE)))
                  IN  pt_insert_alloc_same_level(linked, vbase, a.base, level + 1, target_level, new_pte)

RECURSIVE pt_insert(_, _, _, _, _, _)
pt_insert(pm, vbase, base, level, target_level, new_pte) ==
    LET idx == pte_index_of_va(vbase, level)
        pte == spec_from_u64(pt_mem_read(pm, base, idx))
    IN  IF level >= target_level
        THEN IF pte.valid
             THEN [pt |-> pt_mem_write(pm, base, idx, spec_to_u64(new_pte)), res |-> Ok]
             ELSE [pt |-> pm, res |-> Err]
        ELSE IF pte.valid
             THEN IF pte.huge
                  THEN [pt |-> pm, res |-> Err]
                  ELSE pt_insert(pm, vbase, pte.addr, level + 1, target_level, new_pte)
             ELSE LET a == alloc_table(pm, level + 1)
                      linked == pt_mem_write(a.pt_mem, base, idx,
                                             spec_to_u64(spec_new(a.base, AttrDefault, FALSE)))
                  IN  pt_insert(linked, vbase, a.base, level + 1, target_level, new_pte)

RECURSIVE pt_remove(_, _, _, _)
pt_remove(pm, vbase, base, level) ==
    LET idx == pte_index_of_va(vbase, level)
        pte == spec_from_u64(pt_mem_read(pm, base, idx))
        cleared == pt_mem_write(pm, base, idx, spec_to_u64(spec_empty))
    IN  IF pte.valid
        THEN IF level >= level_count - 1
             THEN IF aligned(vbase, frame_size(level))
                  THEN [pt |-> cleared, res |-> Ok]
                  ELSE [pt |-> pm, res |-> Err]
             ELSE IF pte.huge
                  THEN IF aligned(vbase, frame_size(level))
                       THEN [pt |-> cleared, res |-> Ok]
                       ELSE [pt |-> pm, res |-> Err]
                  ELSE pt_remove(pm, vbase, pte.addr, level + 1)
        ELSE [pt |-> pm, res |-> Err]

RECURSIVE build_node(_, _, _)
build_node(pm, base, level) ==
    [level |-> level,
     entries |->
        [i \in 1 .. entry_count(level) |->
            LET pte == spec_from_u64(pt_mem_read(pm, base, i - 1))
            IN  IF pte.valid
                THEN IF level >= level_count - 1 \/ pte.huge
                     THEN FrameEntry(Frame(pte.addr, frame_size(level), pte.attr))
                     ELSE NodeEntry(build_node(pm, pte.addr, level + 1))
                ELSE Empty]]

view(pm) == build_node(pm, pt_mem_root(pm), 0)

pt_query(pm, vaddr) ==
    LET w == pt_walk(pm, vaddr, pt_mem_root(pm), 0)
        pte == w[1]
        level == w[2]
    IN  IF pte.valid
        THEN [res |-> Ok,
              base |-> vbase_of_va(vaddr, level),
              frame |-> Frame(pte.addr, frame_size(level), pte.attr)]
        ELSE [res |-> Err]

pt_map(pm, vbase, frame) ==
    LET level == level_of_frame_size(frame.size)
        huge == level < level_count - 1
    IN  pt_insert(pm, vbase, pt_mem_root(pm), 0, level, spec_new(frame.base, frame.attr, huge))

pt_unmap(pm, vbase) == pt_remove(pm, vbase, pt_mem_root(pm), 0)

\* The page table over memory next to the tree of nodes: both start empty and
\* every call goes to both, map as insert along the path of vbase at the level
\* of the frame, unmap as remove along the full-depth path of vbase.  `res` is
\* the result over memory, `out` the result on the tree.
PTInit ==
    /\ root = new(0)
    /\ tlb = EmptyMap
    /\ mem = InitMem
    /\ pt_mem = pt_mem_new
    /\ hl = None
    /\ last = Record("init", None, None, None, None, None)

PTMap(vbase, frame) ==
    LET r == pt_map(pt_mem, vbase, frame)
        t == recursive_insert(root, from_vaddr(vbase, level_of_frame_size(frame.size)), frame)
    IN  /\ frame \in ValidFrames
        /\ aligned(vbase, frame.size)
        /\ Len(r.pt.tables) <= MaxTables
        /\ pt_mem' = r.pt
        /\ root' = t.node
        /\ last' = Record("map", vbase, frame, None, r.res, t.res)
        /\ UNCHANGED <<tlb, mem, hl>>

PTUnmap(vbase) ==
    LET r == pt_unmap(pt_mem, vbase)
        t == recursive_remove(root, from_vaddr(vbase, level_count - 1))
    IN  /\ pt_mem' = r.pt
        /\ root' = t.node
        /\ last' = Record("unmap", vbase, None, None, r.res, t.res)
        /\ UNCHANGED <<tlb, mem, hl>>

PTQuery(vaddr) ==
    LET q == pt_query(pt_mem, vaddr)
    IN  /\ last' = Record("query", vaddr, None, None, q.res,
                          IF q.res = Ok THEN <<q.base, q.frame>> ELSE None)
        /\ UNCHANGED <<root, tlb, mem, pt_mem, hl>>

\* It is driven with the addresses under the first entry of the root table.
PTNext ==
    \/ \E vbase \in LLVAddrs, frame \in InputFrames : PTMap(vbase, frame)
    \/ \E vbase \in LLVAddrs : PTUnmap(vbase)
    \/ \E vaddr \in LLVAddrs : PTQuery(vaddr)

SpecPT == PTInit /\ [][PTNext]_vars

-----------------------------------------------------------------------------
(* The page table on every page-table memory that satisfies its invariants *)
(* (imp/paging/pt.rs, PageTable::invariants), not only on the memories the *)
(* operations reach from the empty one.                                    *)

\* Every table of the memory has the entries of its level and the root is a
\* table of level 0.
pt_mem_invariants(pm) ==
    /\ Len(pm.tables) >= 1
    /\ table(pm, pt_mem_root(pm)).level = 0
    /\ \A base \in 0 .. (Len(pm.tables) - 1) :
          /\ table(pm, base).level < level_count
          /\ Len(table(pm, base).words) = entry_count(table(pm, base).level)

pt_invariants(pm) ==
    /\ pt_mem_invariants(pm)
    /\ \A base \in 0 .. (Len(pm.tables) - 1) :
          \A idx \in 0 .. (entry_count(table(pm, base).level) - 1) :
             LET tbl == table(pm, base)
                 pte == spec_from_u64(pt_mem_read(pm, base, idx))
             IN  /\ (tbl.level < level_count - 1 /\ pte.valid /\ ~pte.huge)
                       => /\ contains_table(pm, pte.addr)
                          /\ table(pm, pte.addr).level = tbl.level + 1
                 /\ (tbl.level = level_count - 1 /\ pte.valid) => ~pte.huge

\* The words a table of the level is filled with: the empty word, the frames of
\* the level with the huge flag set or not, and below the last level the
\* pointers to the tables next to the root.
table_words(level) ==
    {spec_to_u64(spec_empty)}
        \cup {spec_to_u64(spec_new(f.base, f.attr, h)) :
                 f \in {g \in InputFrames : g.size = frame_size(level)}, h \in BOOLEAN}
        \cup (IF level < level_count - 1
              THEN {spec_to_u64(spec_new(b, AttrDefault, FALSE)) : b \in 1 .. entry_count(0)}
              ELSE {})

TablesOf(level) ==
    {[level |-> level, words |-> w] :
        w \in [1 .. entry_count(level) -> table_words(level)]}

\* The memories of a root table and at most one table per root entry that
\* satisfy the page-table invariants.
PTMems ==
    {pm \in {[tables |-> <<r>> \o t] :
                r \in TablesOf(0),
                t \in UNION {[1 .. n -> UNION {TablesOf(l) : l \in 1 .. (level_count - 1)}] :
                                n \in 0 .. entry_count(0)}} :
        pt_invariants(pm)}

\* `root` is the tree view of the memory.
MemInit ==
    /\ pt_mem \in PTMems
    /\ root = view(pt_mem)
    /\ tlb = EmptyMap
    /\ mem = InitMem
    /\ hl = None
    /\ last = Record("init", None, None, None, None, None)

\* walk from the root; `out` is the entry and the level it returns.
MemWalk(vaddr) ==
    LET w == pt_walk(pt_mem, vaddr, pt_mem_root(pt_mem), 0)
    IN  /\ last' = Record("walk", vaddr, None, None, IF w[1].valid THEN Ok ELSE Err, w)
        /\ UNCHANGED <<root, tlb, mem, pt_mem, hl>>

MemRemove(vbase) ==
    LET r == pt_remove(pt_mem, vbase, pt_mem_root(pt_mem), 0)
    IN  /\ pt_mem' = r.pt
        /\ root' = view(r.pt)
        /\ last' = Record("remove", vbase, None, None, r.res, None)
        /\ UNCHANGED <<tlb, mem, hl>>

\* The addresses under the first entry of the root table, words and half words.
MemVAddrs == {a \in VAddrs : a < frame_size(0)}

MemNext ==
    \/ \E vaddr \in MemVAddrs : MemWalk(vaddr)
    \/ \E vbase \in MemVAddrs : MemRemove(vbase)

SpecMem == MemInit /\ [][MemNext]_vars

-----------------------------------------------------------------------------
(* Properties of the tree model (specification Spec), of the node          *)
(* operations (SpecNode) and of the low-level state (SpecLL).              *)

\* C1: whenever map(vbase, frame) returned Ok, query(vbase) on the resulting
\* page table returns Ok with exactly the pair (vbase, frame).
C1_MapThenQuery ==
    (last.op = "map" /\ last.res = Ok) =>
        query(root, last.arg) = [res |-> Ok, base |-> last.arg, frame |-> last.frame]

\* A map has just succeeded next to a mapping that was already there.
C1_Witness ==
    /\ last.op = "map"
    /\ last.res = Ok
    /\ Cardinality(DOMAIN path_mappings(root)) >= 2

\* C2: a successful insert(path, frame) changes the path-mapping view to exactly
\* the previous view plus (path, frame), and every query that returned Ok with a
\* base other than the inserted one returns the same result afterwards.
C2_InsertAddsExactlyOne ==
    [][(last'.op = "insert" /\ last'.res = Ok) =>
          /\ path_mappings(root') =
                map_insert(path_mappings(root), last'.arg, last'.frame)
          /\ \A va \in VAddrs :
                (query(root, va).res = Ok /\ query(root, va).base # to_vaddr(last'.arg))
                    => query(root', va) = query(root, va)]_vars

\* An insert has just succeeded beneath a table that holds another mapping.
C2_Witness ==
    /\ last.op = "insert"
    /\ last.res = Ok
    /\ Len(last.arg) = level_count
    /\ \E p \in DOMAIN path_mappings(root) : p # last.arg /\ p[1] = last.arg[1]

\* The virtual ranges of any two distinct mappings of the tree are disjoint.
VirtNonOverlap(self) ==
    LET pm == path_mappings(self)
    IN  \A p1 \in DOMAIN pm, p2 \in DOMAIN pm :
            p1 # p2 => ~overlap(to_vaddr(p1), pm[p1].size, to_vaddr(p2), pm[p2].size)

\* The physical ranges of any two distinct mappings of the tree are disjoint.
PhysNonOverlap(self) ==
    LET pm == path_mappings(self)
    IN  \A p1 \in DOMAIN pm, p2 \in DOMAIN pm :
            p1 # p2 => ~overlap(pm[p1].base, pm[p1].size, pm[p2].base, pm[p2].size)

\* C3: in every state reachable by map and unmap calls, no two distinct
\* mappings overlap in virtual address space.
C3_NoVirtualOverlap == VirtNonOverlap(root)

\* A block mapping and a last-level mapping are present together.
C3_Witness ==
    \E p1 \in DOMAIN path_mappings(root), p2 \in DOMAIN path_mappings(root) :
        Len(p1) = 1 /\ Len(p2) = level_count

C5_MapThenUnmap ==
    (last.op = "map" /\ last.res = Ok) =>
        /\ unmap(root, last.arg).res = Ok
        /\ query(unmap(root, last.arg).tree, last.arg).res = Err

\* A block has just been mapped, so that unmap has to remove at the first level.
C5_Witness ==
    /\ last.op = "map"
    /\ last.res = Ok
    /\ last.frame.size = frame_size(0)
    /\ path_mappings(unmap(root, last.arg).tree) # path_mappings(root)

\* C8: in every reachable low-level state, every entry of the translation cache
\* is a mapping of the interpreted page table with the same base and frame; this
\* holds in the state right after a successful unmap of a cached base.
C8_TlbSubmapOfPt == tlb_is_submap_of_pt(root, tlb)

\* An unmap has just succeeded and evicted a cached entry while another entry
\* stays cached.
C8_Witness ==
    /\ last.op = "unmap"
    /\ last.res = Ok
    /\ last.out >= 1
    /\ tlb # EmptyMap

\* C9: if the cache holds a mapping covering vaddr, the page table holds a
\* mapping covering vaddr with the same base and frame, and a read or write of
\* vaddr gives the same result and memory whichever of the two resolves it.
C9_TlbAgreesWithPt ==
    \A vaddr \in VWordAddrs :
        has_mapping_for(tlb, vaddr) =>
            /\ has_mapping_for(pt_interpret(root), vaddr)
            /\ \A b1 \in DOMAIN tlb, b2 \in DOMAIN pt_interpret(root) :
                  (within(vaddr, b1, tlb[b1].size)
                     /\ within(vaddr, b2, pt_interpret(root)[b2].size))
                  => /\ b1 = b2
                     /\ tlb[b1] = pt_interpret(root)[b2]
                     /\ read_through(mem, vaddr, <<b1, tlb[b1]>>) =
                           read_through(mem, vaddr, <<b2, pt_interpret(root)[b2]>>)
                     /\ \A value \in Values :
                           write_through(mem, vaddr, value, <<b1, tlb[b1]>>) =
                              write_through(mem, vaddr, value, <<b2, pt_interpret(root)[b2]>>)

\* A write has just gone through a cached read-write mapping and changed memory.
C9_Witness ==
    /\ last.op = "write"
    /\ last.res = Ok
    /\ has_mapping_for(tlb, last.arg)
    /\ mem # InitMem

-----------------------------------------------------------------------------
(* Properties of the page table over page-table memory (SpecPT).           *)

\* C6: whenever map returns Err, page-table memory is exactly as it was before
\* the call: no entry is written and no table allocated or linked during the
\* descent remains.
C6_MapErrLeavesUnchanged ==
    [][(last'.op = "map" /\ last'.res = Err) => pt_mem' = pt_mem]_vars

\* C7: whenever unmap returns Err, the page table is exactly as it was before
\* the call, over memory and on the tree of nodes alike; and unmap of an address
\* that no mapping covers returns Err.
C7_UnmapErrLeavesUnchanged ==
    [][last'.op = "unmap" =>
          /\ last'.res = Err => pt_mem' = pt_mem
          /\ last'.out = Err => root' = root
          /\ pt_query(pt_mem, last'.arg).res = Err => last'.res = Err
          /\ ~has_mapping_for(pt_interpret(root), last'.arg) => last'.out = Err]_vars

\* An unmap of the second word of a mapped block has just failed over memory,
\* and failed on a tree that holds mappings.
C7_Witness ==
    /\ last.op = "unmap"
    /\ last.res = Err
    /\ last.out = Err
    /\ has_mapping_for(pt_interpret(view(pt_mem)), last.arg)
    /\ DOMAIN path_mappings(root) # {}

\* C10: for every reachable page-table memory, every vbase and every frame,
\* insert over memory from the root at the level of the frame and recursive_insert
\* on the tree view along the path of vbase return the same result, and the tree
\* view of the resulting memory is the resulting tree.
C10_InsertRefinesTreeInsert ==
    \A vbase \in LLVAddrs, frame \in InputFrames :
        aligned(vbase, frame.size) =>
            LET level == level_of_frame_size(frame.size)
                r == pt_map(pt_mem, vbase, frame)
                t == recursive_insert(view(pt_mem), from_vaddr(vbase, level), frame)
            IN  r.res = t.res /\ view(r.pt) = t.node

-----------------------------------------------------------------------------
(* Properties of the page table on every memory satisfying its invariants  *)
(* (SpecMem).                                                              *)

\* C11: for every memory satisfying the page-table invariants and every vaddr,
\* walk(vaddr) from the root returns (pte, level) such that the visit of the tree
\* view along the full-depth path of vaddr has length level + 1 and ends in the
\* frame of pte's address and attributes and of size frame_size(level) when pte
\* is valid, and in Empty when pte is not valid.
C11_WalkConsistentWithVisit ==
    \A vaddr \in VAddrs :
        LET w == pt_walk(pt_mem, vaddr, pt_mem_root(pt_mem), 0)
            pte == w[1]
            level == w[2]
            visited == recursive_visit(view(pt_mem), from_vaddr(vaddr, level_count - 1))
        IN  /\ Len(visited) = level + 1
            /\ Last(visited) = IF pte.valid
                               THEN FrameEntry(Frame(pte.addr, frame_size(level), pte.attr))
                               ELSE Empty

\* A walk has just descended through a table pointer to a valid last-level entry.
C11_Witness ==
    /\ last.op = "walk"
    /\ last.res = Ok
    /\ last.out[2] = level_count - 1
    /\ Len(recursive_visit(view(pt_mem), from_vaddr(last.arg, level_count - 1))) = level_count

\* C12: for every reachable page-table memory and every vbase, remove over the
\* memory from the root and recursive_remove on the tree view along the
\* full-depth path of vbase return the same result, and the tree view of the
\* resulting memory equals the resulting tree.
C12_RemoveRefinesTreeRemove ==
    \A vbase \in MemVAddrs :
        LET r == pt_remove(pt_mem, vbase, pt_mem_root(pt_mem), 0)
            t == recursive_remove(view(pt_mem), from_vaddr(vbase, level_count - 1))
        IN  r.res = t.res /\ view(r.pt) = t.node

-----------------------------------------------------------------------------
(* Properties of the tree of nodes under insert and remove (SpecNode).     *)

C15_NoPrefixAmongMappings ==
    LET pm == path_mappings(root)
    IN  \A p1 \in DOMAIN pm, p2 \in DOMAIN pm : p1 # p2 => ~has_prefix(p1, p2)

\* An insert has just succeeded and the tree maps a block next to a table that
\* holds a last-level frame.
C15_Witness ==
    /\ last.op = "insert"
    /\ last.res = Ok
    /\ \E p1 \in DOMAIN path_mappings(root), p2 \in DOMAIN path_mappings(root) :
          Len(p1) < Len(p2)

-----------------------------------------------------------------------------
(* Properties of the tree under map, unmap and query (Spec), continued.    *)

\* C14: in every tree reached by map and unmap calls that meet map's
\* preconditions, every mapping (path, frame) of the path-mapping view has
\* frame.size = frame_size(Len(path) - 1), to_vaddr(path) aligned to frame.size,
\* frame.base aligned to frame.size, and the frame inside [pmem_lb, pmem_ub).
C14_PathMappingsValid ==
    LET pm == path_mappings(root)
    IN  \A p \in DOMAIN pm :
            /\ pm[p].size = frame_size(Len(p) - 1)
            /\ aligned(to_vaddr(p), pm[p].size)
            /\ aligned(pm[p].base, pm[p].size)
            /\ pmem_lb <= pm[p].base
            /\ pm[p].base + pm[p].size <= pmem_ub

\* A map has just succeeded and the tree maps a block and a last-level frame,
\* neither at virtual address 0.
C14_Witness ==
    /\ last.op = "map"
    /\ last.res = Ok
    /\ \E p1 \in DOMAIN path_mappings(root), p2 \in DOMAIN path_mappings(root) :
          /\ Len(p1) < Len(p2)
          /\ to_vaddr(p1) # 0
          /\ to_vaddr(p2) # 0

-----------------------------------------------------------------------------
(* Properties of the path functions (SpecPath).                            *)

\* to_vaddr(from_vaddr(vaddr, level)) is vaddr rounded down to a multiple of
\* frame_size(level), for the address, level, path and result of record r.
RoundTrip(r) ==
    LET size == frame_size(r.value)
    IN  /\ r.out[2] = (r.arg \div size) * size
        /\ aligned(r.arg, size) => r.out[2] = r.arg

C17_PathOrderImpliesVaddrOrder ==
    (last.op = "order" /\ last.arg[last.res + 1] < last.value[last.res + 1]) =>
        last.out[1] + frame_size(Len(last.arg) - 1) <= last.out[2]

\* to_vaddr has just been applied to a full-depth path a and a shorter path b
\* with a below b at their first differing index, and a's frame ends where b's
\* begins.
C17_Witness ==
    /\ last.op = "order"
    /\ last.arg[last.res + 1] < last.value[last.res + 1]
    /\ Len(last.arg) > Len(last.value)
    /\ last.out[1] + frame_size(Len(last.arg) - 1) = last.out[2]

-----------------------------------------------------------------------------
(* Properties of query and unmap on the tree (Spec).                       *)

\* The addresses query is asked about: those of the address space of the root
\* table and those of the same size above it, word bases and middles of words.
QueryVAddrs == {a \in PathVAddrs : a % (WORD_SIZE \div 2) = 0}

\* C18: for every reachable page table and every vaddr, query(vaddr), which is
\* a function of the tree and returns no tree, satisfies: if it returns
\* Ok((base, frame)) then (base, frame) is a current mapping, base is the
\* virtual base of the slot reached by the walk, and base <= vaddr < base +
\* frame.size; if it returns Err then no current mapping covers vaddr.
C18_QueryContract ==
    \A vaddr \in QueryVAddrs :
        LET q == query(root, vaddr)
        IN  IF q.res = Ok
            THEN /\ contains_pair(pt_interpret(root), q.base, q.frame)
                 /\ q.base = to_vaddr(real_path(root, from_vaddr(vaddr, level_count - 1)))
                 /\ within(vaddr, q.base, q.frame.size)
            ELSE ~has_mapping_for(pt_interpret(root), vaddr)

\* C19: unmap(vbase) returns Ok if and only if the current mappings contain a
\* mapping whose virtual base is exactly vbase, and on Ok exactly that mapping
\* is removed; unmap of an address strictly inside a larger mapping returns Err.
C19_UnmapExactBase ==
    \A vbase \in VWordAddrs :
        LET r == unmap(root, vbase)
            m == pt_interpret(root)
        IN  /\ r.res = Ok <=> vbase \in DOMAIN m
            /\ r.res = Ok => pt_interpret(r.tree) = map_remove(m, vbase)
            /\ (\E b \in DOMAIN m : b # vbase /\ within(vbase, b, m[b].size)) => r.res = Err

-----------------------------------------------------------------------------
(* Properties of insert on the tree of nodes (SpecNode), continued.        *)

\* C20: in every reachable tree, if insert(path, frame) fails then the
\* path-mapping view contains a path2 that is a prefix of path or has path as a
\* prefix, also after earlier removes have left empty intermediate tables.
C20_InsertFailsImpliesPrefix ==
    \A path \in ValidPaths(0), frame \in InputFrames :
        (/\ is_entry_valid(FrameEntry(frame), root.level + Len(path) - 1)
         /\ recursive_insert(root, path, frame).res = Err) =>
            \E path2 \in DOMAIN path_mappings(root) :
                has_prefix(path2, path) \/ has_prefix(path, path2)

-----------------------------------------------------------------------------
(* Properties of map on the tree of nodes and over page-table memory       *)
(* (SpecPT).                                                               *)

\* C21: map(vbase, frame) returns Err whenever [vbase, vbase + frame.size)
\* overlaps the virtual range of an existing mapping, on the tree (insert along
\* the path of vbase at the level of the frame) and over page-table memory.
C21_MapErrOnOverlap ==
    \A vbase \in VWordAddrs, frame \in InputFrames :
        aligned(vbase, frame.size) =>
            /\ overlaps_vmem(pt_interpret(root), vbase, frame) =>
                  recursive_insert(root,
                                   from_vaddr(vbase, level_of_frame_size(frame.size)),
                                   frame).res = Err
            /\ overlaps_vmem(pt_interpret(view(pt_mem)), vbase, frame) =>
                  pt_map(pt_mem, vbase, frame).res = Err

-----------------------------------------------------------------------------
(* Properties of sequences of insert and remove on the tree of nodes       *)
(* (SpecNode).                                                             *)

\* C22: when map(vbase, f1) has just returned Ok (insert along the path of
\* vbase), unmap(vbase) returns Ok, and on the tree it leaves a map(vbase, f2)
\* with a different frame f2 of the same size returns Ok, after which the visit
\* along the path ends in f2 and the mappings hold (path, f2).
C22_RemapAfterUnmap ==
    (last.op = "insert" /\ last.res = Ok) =>
        LET path == last.arg
            removed == recursive_remove(root, path)
        IN  /\ removed.res = Ok
            /\ \A f2 \in ValidFrames :
                  (f2 # last.frame /\ f2.size = last.frame.size) =>
                      LET inserted == recursive_insert(removed.node, path, f2)
                      IN  /\ inserted.res = Ok
                          /\ recursive_visit(inserted.node, path)[Len(path)] = FrameEntry(f2)
                          /\ contains_pair(path_mappings(inserted.node), path, f2)

\* An insert of a last-level frame has just succeeded in a table that holds
\* another frame, and a different frame of the same size exists.
C22_Witness ==
    /\ last.op = "insert"
    /\ last.res = Ok
    /\ Len(last.arg) = level_count
    /\ \E p \in DOMAIN path_mappings(root) : p # last.arg /\ p[1] = last.arg[1]
    /\ \E f2 \in ValidFrames : f2 # last.frame /\ f2.size = last.frame.size /\ f2.base # last.frame.base

-----------------------------------------------------------------------------
(* The high-level state machine (spec/high_level.rs).  The state `hl` is   *)
(* the record [mem, mappings]: mem maps virtual word indices to words and  *)
(* mappings maps virtual bases to frames.  A transition is a relation      *)
(* between the state before, the state after, the arguments and the        *)
(* result; a result is the record [res, out].                              *)

\* constants.pmem_size, the bound the physical word index of an access is
\* compared with: the number of words of physical memory.
pmem_size == pmem_ub \div WORD_SIZE

HLState(memory, mappings) == [mem |-> memory, mappings |-> mappings]

Result(res, out) == [res |-> res, out |-> out]

\* The results a read may return.
ReadResults == {Result(Err, None)} \cup {Result(Ok, v) : v \in Values}

hl_init(self) == self.mem = EmptyMap /\ self.mappings = EmptyMap

mem_domain_covered_by_mappings(self) ==
    {vidx \in 0 .. (word_idx(VSpace) - 1) :
        \E base \in DOMAIN self.mappings :
            within(vidx * WORD_SIZE, base, self.mappings[base].size)}

\* hl_read without the test of the physical word index against pmem_size.
hl_read_unbounded(s1, s2, vaddr, res) ==
    /\ aligned(vaddr, WORD_SIZE)
    /\ s1.mappings = s2.mappings
    /\ s1.mem = s2.mem
    /\ IF has_mapping_for(s1.mappings, vaddr)
       THEN LET m == mapping_for(s1.mappings, vaddr)
            IN  IF /\ m[2].attr.readable
                   /\ m[2].attr.user_accessible
                THEN res.res = Ok /\ res.out = s1.mem[word_idx(vaddr)]
                ELSE res.res = Err
       ELSE res.res = Err

hl_read(s1, s2, vaddr, res) ==
    /\ aligned(vaddr, WORD_SIZE)
    /\ s1.mappings = s2.mappings
    /\ s1.mem = s2.mem
    /\ IF has_mapping_for(s1.mappings, vaddr)
       THEN LET m == mapping_for(s1.mappings, vaddr)
            IN  IF /\ word_idx(translate(vaddr, m[1], m[2].base)) < pmem_size
                   /\ m[2].attr.readable
                   /\ m[2].attr.user_accessible
                THEN res.res = Ok /\ res.out = s1.mem[word_idx(vaddr)]
                ELSE res.res = Err
       ELSE res.res = Err

\* hl_write with the word stored even when no mapping covers vaddr.
hl_write_without_mapping(s1, s2, vaddr, value, res) ==
    /\ aligned(vaddr, WORD_SIZE)
    /\ s1.mappings = s2.mappings
    /\ IF has_mapping_for(s1.mappings, vaddr)
       THEN LET m == mapping_for(s1.mappings, vaddr)
            IN  IF /\ word_idx(translate(vaddr, m[1], m[2].base)) < pmem_size
                   /\ m[2].attr.writable
                   /\ m[2].attr.user_accessible
                THEN /\ res.res = Ok
                     /\ s2.mem = map_insert(s1.mem, word_idx(vaddr), value)
                ELSE /\ res.res = Err
                     /\ s1.mem = s2.mem
       ELSE /\ res.res = Err
            /\ s2.mem = map_insert(s1.mem, word_idx(vaddr), value)

hl_write(s1, s2, vaddr, value, res) ==
    /\ aligned(vaddr, WORD_SIZE)
    /\ s1.mappings = s2.mappings
    /\ IF has_mapping_for(s1.mappings, vaddr)
       THEN LET m == mapping_for(s1.mappings, vaddr)
            IN  IF /\ word_idx(translate(vaddr, m[1], m[2].base)) < pmem_size
                   /\ m[2].attr.writable
                   /\ m[2].attr.user_accessible
                THEN /\ res.res = Ok
                     /\ s2.mem = map_insert(s1.mem, word_idx(vaddr), value)
                ELSE /\ res.res = Err
                     /\ s1.mem = s2.mem
       ELSE /\ res.res = Err
            /\ s1.mem = s2.mem

hl_map(s1, s2, vaddr, frame, res) ==
    /\ aligned(vaddr, frame.size)
    /\ aligned(frame.base, frame.size)
    /\ ~overlaps_pmem(s1.mappings, frame)
    /\ IF overlaps_vmem(s1.mappings, vaddr, frame)
       THEN /\ res.res = Err
            /\ s1.mem = s2.mem
            /\ s1.mappings = s2.mappings
       ELSE /\ res.res = Ok
            /\ map_insert(s1.mappings, vaddr, frame) = s2.mappings
            /\ DOMAIN s2.mem = mem_domain_covered_by_mappings(s2)

hl_unmap(s1, s2, vaddr, res) ==
    /\ \E l \in Levels : aligned(vaddr, frame_size(l))
    /\ IF vaddr \in DOMAIN s1.mappings
       THEN /\ res.res = Ok
            /\ map_remove(s1.mappings, vaddr) = s2.mappings
            /\ DOMAIN s2.mem = mem_domain_covered_by_mappings(s2)
       ELSE /\ res.res = Err
            /\ s1.mem = s2.mem
            /\ s1.mappings = s2.mappings

hl_query(s1, s2, vaddr, res) ==
    /\ s1.mem = s2.mem
    /\ s1.mappings = s2.mappings
    /\ IF res.res = Ok
       THEN /\ contains_pair(s1.mappings, res.out[1], res.out[2])
            /\ within(vaddr, res.out[1], res.out[2].size)
       ELSE ~has_mapping_for(s1.mappings, vaddr)

hl_id(s1, s2) == s1 = s2

\* The frames the high-level machine is driven with: the frames handed to the
\* page table, a last-level frame just above the physical memory and a
\* last-level frame with no access permitted.
HLFrames ==
    InputFrames \cup {Frame(pmem_ub, frame_size(level_count - 1), AttrRW),
                      Frame(pmem_lb, frame_size(level_count - 1), AttrDefault)}

\* The states a transition from s1 may lead to: s1 itself, s1 with one word
\* written, and s1 with one mapping added or removed and any memory contents.
HLMemories(mappings) ==
    [mem_domain_covered_by_mappings(HLState(EmptyMap, mappings)) -> Values]

HLInit ==
    /\ root = new(0)
    /\ tlb = EmptyMap
    /\ mem = InitMem
    /\ pt_mem = None
    /\ hl = HLState(EmptyMap, EmptyMap)
    /\ hl_init(hl)
    /\ last = Record("init", None, None, None, None, None)

HLRead(vaddr) ==
    \E res \in ReadResults :
        /\ hl_read(hl, hl, vaddr, res)
        /\ hl' = hl
        /\ last' = Record("read", vaddr, None, None, res.res, res.out)
        /\ UNCHANGED <<root, tlb, mem, pt_mem>>

HLWrite(vaddr, value) ==
    \E res \in {Result(Ok, None), Result(Err, None)},
       s2 \in {hl, HLState(map_insert(hl.mem, word_idx(vaddr), value), hl.mappings)} :
        /\ hl_write(hl, s2, vaddr, value, res)
        /\ hl' = s2
        /\ last' = Record("write", vaddr, None, value, res.res, None)
        /\ UNCHANGED <<root, tlb, mem, pt_mem>>

HLMap(vaddr, frame) ==
    \E res \in {Result(Ok, None), Result(Err, None)},
       s2 \in {hl} \cup {HLState(m, map_insert(hl.mappings, vaddr, frame)) :
                            m \in HLMemories(map_insert(hl.mappings, vaddr, frame))} :
        /\ hl_map(hl, s2, vaddr, frame, res)
        /\ hl' = s2
        /\ last' = Record("map", vaddr, frame, None, res.res, None)
        /\ UNCHANGED <<root, tlb, mem, pt_mem>>

HLUnmap(vaddr) ==
    \E res \in {Result(Ok, None), Result(Err, None)},
       s2 \in {hl} \cup {HLState(m, map_remove(hl.mappings, vaddr)) :
                            m \in HLMemories(map_remove(hl.mappings, vaddr))} :
        /\ hl_unmap(hl, s2, vaddr, res)
        /\ hl' = s2
        /\ last' = Record("unmap", vaddr, None, None, res.res, None)
        /\ UNCHANGED <<root, tlb, mem, pt_mem>>

HLQuery(vaddr) ==
    \E res \in {Result(Err, None)} \cup
               {Result(Ok, <<base, hl.mappings[base]>>) : base \in DOMAIN hl.mappings} :
        /\ hl_query(hl, hl, vaddr, res)
        /\ hl' = hl
        /\ last' = Record("query", vaddr, None, None, res.res, res.out)
        /\ UNCHANGED <<root, tlb, mem, pt_mem>>

HLNext ==
    \/ \E vaddr \in LLVAddrs : HLRead(vaddr)
    \/ \E vaddr \in LLVAddrs, value \in Values : HLWrite(vaddr, value)
    \/ \E vaddr \in LLVAddrs, frame \in HLFrames : HLMap(vaddr, frame)
    \/ \E vaddr \in LLVAddrs : HLUnmap(vaddr)
    \/ \E vaddr \in LLVAddrs : HLQuery(vaddr)

SpecHL == HLInit /\ [][HLNext]_vars

-----------------------------------------------------------------------------
(* Properties of the high-level state machine (SpecHL).                    *)

\* C23: in every high-level state reachable from init by read, write, map,
\* unmap and query transitions, the key set of mem is exactly the set of
\* virtual word indices whose address lies inside the range of some mapping.
C23_MemDomainCoveredByMappings ==
    DOMAIN hl.mem = mem_domain_covered_by_mappings(hl)

\* A mapping has just been removed while another one still covers a word.
C23_Witness ==
    /\ last.op = "unmap"
    /\ last.res = Ok
    /\ hl.mappings # EmptyMap
    /\ DOMAIN hl.mem # {}
    /\ DOMAIN hl.mem # 0 .. (word_idx(VSpace) - 1)

-----------------------------------------------------------------------------
(* The low-level state machine seen through its abstraction                *)
(* (imp/ll_refine_hl.rs).                                                  *)

\* all_mappings that looks at the translation cache only.
all_mappings_cache_only(pt, cache) == cache

\* All the mappings of the state: those of the page table and those of the
\* translation cache (equal to the page table's when the cache is a submap).
all_mappings(pt, cache) ==
    LET ptm == pt_interpret(pt)
    IN  [base \in DOMAIN ptm \cup DOMAIN cache |->
            IF base \in DOMAIN ptm THEN ptm[base] ELSE cache[base]]

\* The virtual memory of the state: every virtual word inside a mapping whose
\* physical word lies in the physical memory, with the word stored there.
interpret_mem(pt, cache, memory) ==
    LET maps == all_mappings(pt, cache)
        covered == {vidx \in mem_domain_covered_by_mappings(HLState(EmptyMap, maps)) :
                       pidx_of(vidx * WORD_SIZE, mapping_for(maps, vidx * WORD_SIZE)) < Len(memory)}
    IN  [vidx \in covered |->
            memory[pidx_of(vidx * WORD_SIZE, mapping_for(maps, vidx * WORD_SIZE)) + 1]]

\* The high-level state a low-level state stands for.
ll_view(pt, cache, memory) ==
    HLState(interpret_mem(pt, cache, memory), all_mappings(pt, cache))

mappings_aligned(pt) ==
    \A base \in DOMAIN pt_interpret(pt) :
        /\ aligned(base, pt_interpret(pt)[base].size)
        /\ aligned(pt_interpret(pt)[base].base, pt_interpret(pt)[base].size)

frames_within_pmem(pt, memory) ==
    \A base \in DOMAIN pt_interpret(pt) :
        pt_interpret(pt)[base].base + pt_interpret(pt)[base].size <= Len(memory) * WORD_SIZE

mappings_nonoverlap_in_vmem(pt) ==
    \A base1 \in DOMAIN pt_interpret(pt), base2 \in DOMAIN pt_interpret(pt) :
        base1 = base2 \/ ~overlap(base1, pt_interpret(pt)[base1].size,
                                  base2, pt_interpret(pt)[base2].size)

\* mappings_nonoverlap_in_pmem that compares the virtual ranges instead of the
\* physical ones.
mappings_nonoverlap_in_pmem_virtual(pt) ==
    \A base1 \in DOMAIN pt_interpret(pt), base2 \in DOMAIN pt_interpret(pt) :
        base1 = base2 \/ ~overlap(base1, pt_interpret(pt)[base1].size,
                                  base2, pt_interpret(pt)[base2].size)

mappings_nonoverlap_in_pmem(pt) ==
    \A base1 \in DOMAIN pt_interpret(pt), base2 \in DOMAIN pt_interpret(pt) :
        base1 = base2 \/ ~overlap(pt_interpret(pt)[base1].base, pt_interpret(pt)[base1].size,
                                  pt_interpret(pt)[base2].base, pt_interpret(pt)[base2].size)

ll_invariants(pt, cache, memory) ==
    /\ mappings_aligned(pt)
    /\ frames_within_pmem(pt, memory)
    /\ mappings_nonoverlap_in_vmem(pt)
    /\ mappings_nonoverlap_in_pmem(pt)
    /\ tlb_is_submap_of_pt(pt, cache)

\* A read step of the low-level machine is a read step of the high-level one
\* and keeps the invariants.
ll_read_refines_hl_read(pt, cache, memory, vaddr) ==
    LET r == read_through(memory, vaddr, resolve(pt, cache, vaddr))
        cache2 == refill(pt, cache, vaddr)
    IN  /\ hl_read(ll_view(pt, cache, memory), ll_view(pt, cache2, memory), vaddr,
                   Result(r.res, r.out))
        /\ ll_invariants(pt, cache2, memory)

ll_write_refines_hl_write(pt, cache, memory, vaddr, value) ==
    LET w == write_through(memory, vaddr, value, resolve(pt, cache, vaddr))
        cache2 == refill(pt, cache, vaddr)
    IN  /\ hl_write(ll_view(pt, cache, memory), ll_view(pt, cache2, w.mem), vaddr, value,
                    Result(w.res, None))
        /\ ll_invariants(pt, cache2, w.mem)

ll_map_refines_hl_map(pt, cache, memory, vbase, frame) ==
    LET r == map(pt, vbase, frame)
        pt2 == IF r.res = Ok THEN r.tree ELSE pt
    IN  /\ hl_map(ll_view(pt, cache, memory), ll_view(pt2, cache, memory), vbase, frame,
                  Result(r.res, None))
        /\ ll_invariants(pt2, cache, memory)

ll_unmap_refines_hl_unmap(pt, cache, memory, vbase) ==
    LET q == query(pt, vbase)
        r == unmap(pt, vbase)
        pt2 == IF r.res = Ok THEN r.tree ELSE pt
        cache2 == IF r.res = Ok THEN evict_range(cache, q.base, q.frame.size) ELSE cache
    IN  /\ hl_unmap(ll_view(pt, cache, memory), ll_view(pt2, cache2, memory), vbase,
                    Result(r.res, None))
        /\ ll_invariants(pt2, cache2, memory)

ll_query_refines_hl_query(pt, cache, memory, vaddr) ==
    LET q == query(pt, vaddr)
    IN  /\ hl_query(ll_view(pt, cache, memory), ll_view(pt, cache, memory), vaddr,
                    Result(q.res, IF q.res = Ok THEN <<q.base, q.frame>> ELSE None))
        /\ ll_invariants(pt, cache, memory)

ll_tlb_evict_refines_hl_id(pt, cache, memory, base) ==
    /\ hl_id(ll_view(pt, cache, memory), ll_view(pt, map_remove(cache, base), memory))
    /\ ll_invariants(pt, map_remove(cache, base), memory)

\* C24: every read, write, map, unmap and query step of the low-level machine
\* taken from a state satisfying the low-level invariants is, on the
\* abstracted states, a high-level step of the same operation with the same
\* arguments and result, and leads to a state satisfying the invariants.
\* A map step is taken with a frame that overlaps no mapped frame, which
\* HighLevelState::map requires of its caller.
C24_LLStepRefinesHLStep ==
    ll_invariants(root, tlb, mem) =>
        /\ \A vaddr \in LLVAddrs : ll_read_refines_hl_read(root, tlb, mem, vaddr)
        /\ \A vaddr \in LLVAddrs, value \in Values :
              ll_write_refines_hl_write(root, tlb, mem, vaddr, value)
        /\ \A vbase \in LLVAddrs, frame \in InputFrames :
              (aligned(vbase, frame.size) /\ ~overlaps_pmem(pt_interpret(root), frame)) =>
                  ll_map_refines_hl_map(root, tlb, mem, vbase, frame)
        /\ \A vbase \in LLVAddrs : ll_unmap_refines_hl_unmap(root, tlb, mem, vbase)
        /\ \A vaddr \in LLVAddrs : ll_query_refines_hl_query(root, tlb, mem, vaddr)

\* C25: a tlb_evict step changes at most the translation cache: the page table
\* and the physical memory are unchanged, and when the low-level invariants
\* hold before the step the abstracted high-level state is identical before
\* and after it and the invariants hold after it.
C25_TlbEvictIsStutter ==
    [][last'.op = "tlb_evict" =>
          /\ root' = root
          /\ mem' = mem
          /\ ll_invariants(root, tlb, mem) =>
                /\ hl_id(ll_view(root, tlb, mem), ll_view(root', tlb', mem'))
                /\ ll_invariants(root', tlb', mem')]_vars

\* An entry has just been evicted from a cache that held two, in a state that
\* satisfies the invariants and maps both words.
C25_Witness ==
    /\ last.op = "tlb_evict"
    /\ tlb # EmptyMap
    /\ tlb_is_submap_of_pt(root, tlb)
    /\ Cardinality(DOMAIN pt_interpret(root)) = 2
    /\ ll_invariants(root, tlb, mem)

\* Some mapping covers vaddr with a frame that grants `access` to the user and
\* puts the word of vaddr inside the physical memory.
accessible(mappings, vaddr, access) ==
    \E base \in DOMAIN mappings :
        /\ base <= vaddr
        /\ vaddr < base + mappings[base].size
        /\ (mappings[base].base + (vaddr - base)) \div WORD_SIZE < pmem_size
        /\ mappings[base].attr[access]
        /\ mappings[base].attr.user_accessible

\* The states compared with the state after a step from s1: s1 itself, s1
\* with one word stored, and s1 without one of its mappings.
HLNear(s1) ==
    {s1}
    \cup {HLState(map_insert(s1.mem, word_idx(vaddr), v), s1.mappings) :
             vaddr \in LLVAddrs, v \in Values}
    \cup {HLState(s1.mem, map_remove(s1.mappings, base)) : base \in DOMAIN s1.mappings}

\* C26: a read step never changes mem or mappings; it returns Ok with the word
\* mem holds at the word index of vaddr exactly when a mapping covers vaddr,
\* the translated physical word index is below the physical memory size and
\* the frame is readable and user accessible, and Err otherwise.
C26_ReadContract ==
    \A vaddr \in LLVAddrs :
        /\ \E res \in ReadResults : hl_read(hl, hl, vaddr, res)
        /\ \A s2 \in HLNear(hl), res \in ReadResults :
              hl_read(hl, s2, vaddr, res) =>
                  /\ s2.mem = hl.mem
                  /\ s2.mappings = hl.mappings
                  /\ IF accessible(hl.mappings, vaddr, "readable")
                     THEN res = Result(Ok, hl.mem[vaddr \div WORD_SIZE])
                     ELSE res.res = Err

\* A read has just returned the word 1 through a mapping, while another
\* address is mapped to a frame above the physical memory.
C26_Witness ==
    /\ last.op = "read"
    /\ last.res = Ok
    /\ last.out = 1
    /\ \E base \in DOMAIN hl.mappings : hl.mappings[base].base >= pmem_ub

\* C27: a write step never changes the mappings; when a mapping covers vaddr,
\* the physical word is in range and the frame is writable and user
\* accessible, it returns Ok and the virtual memory changes only at the word
\* index of vaddr (every other virtual word keeps its value); otherwise it
\* returns Err and the virtual memory is unchanged.  The step is the
\* low-level write from a state satisfying the invariants, seen through the
\* abstraction.
C27_WriteContract ==
    ll_invariants(root, tlb, mem) =>
        \A vaddr \in LLVAddrs, value \in Values :
            LET w == write_through(mem, vaddr, value, resolve(root, tlb, vaddr))
                s1 == ll_view(root, tlb, mem)
                s2 == ll_view(root, refill(root, tlb, vaddr), w.mem)
            IN  /\ s2.mappings = s1.mappings
                /\ hl_write(s1, s2, vaddr, value, Result(w.res, None))
                /\ IF accessible(s1.mappings, vaddr, "writable")
                   THEN /\ w.res = Ok
                        /\ DOMAIN s2.mem = DOMAIN s1.mem
                        /\ s2.mem[word_idx(vaddr)] = value
                        /\ \A vidx \in DOMAIN s1.mem \ {word_idx(vaddr)} :
                              s2.mem[vidx] = s1.mem[vidx]
                   ELSE /\ w.res = Err
                        /\ s2.mem = s1.mem

\* A write has just succeeded in a state that satisfies the invariants and
\* maps another virtual word, which holds a different value.
C27_Witness ==
    /\ last.op = "write"
    /\ last.res = Ok
    /\ ll_invariants(root, tlb, mem)
    /\ \E vidx \in DOMAIN interpret_mem(root, tlb, mem) :
          /\ vidx # word_idx(last.arg)
          /\ interpret_mem(root, tlb, mem)[vidx] # last.value

-----------------------------------------------------------------------------
(* Properties of the initial state.                                        *)

\* C28: the initial state (empty translation cache, page-table memory holding
\* only a root table whose entries all decode as not valid) satisfies the
\* page-table invariants and the low-level invariants, and its abstraction is
\* the high-level init state, with empty mem and empty mappings.
C28_InitSatisfiesInvariants ==
    last.op = "init" =>
        /\ Len(pt_mem.tables) = 1
        /\ pt_invariants(pt_mem)
        /\ \A idx \in 0 .. (entry_count(0) - 1) :
              ~spec_from_u64(pt_mem_read(pt_mem, pt_mem_root(pt_mem), idx)).valid
        /\ path_mappings(view(pt_mem)) = EmptyMap
        /\ invariants(view(pt_mem))
        /\ ll_invariants(view(pt_mem), tlb, mem)
        /\ hl_init(ll_view(view(pt_mem), tlb, mem))

\* The state right after construction.
C28_Witness ==
    /\ last.op = "init"
    /\ tlb = EmptyMap
    /\ pt_mem = pt_mem_new
    /\ ll_view(view(pt_mem), tlb, mem) = HLState(EmptyMap, EmptyMap)

-----------------------------------------------------------------------------
(* Properties of insert at its final step.                                 *)

\* The entry insert meets at its final step over memory: the entry of the
\* table of target_level that vbase addresses.  `reached` is FALSE when a
\* block above blocks the descent; a table that insert allocates on the way
\* holds the empty entry.
RECURSIVE final_pte(_, _, _, _, _)
final_pte(pm, vbase, base, level, target_level) ==
    LET pte == spec_from_u64(pt_mem_read(pm, base, pte_index_of_va(vbase, level)))
    IN  IF level >= target_level
        THEN [reached |-> TRUE, pte |-> pte]
        ELSE IF pte.valid
             THEN IF pte.huge
                  THEN [reached |-> FALSE, pte |-> pte]
                  ELSE final_pte(pm, vbase, pte.addr, level + 1, target_level)
             ELSE [reached |-> TRUE, pte |-> spec_empty]

\* The same for the tree: the last entry visit meets along the path.
final_entry(self, path) ==
    LET visited == recursive_visit(self, path)
    IN  [reached |-> Len(visited) = Len(path) \/ Last(visited).tag = "Empty",
         entry |-> Last(visited)]

\* At the final step recursive_insert writes the frame and returns Ok exactly
\* when the slot is empty, and returns Err with the node unchanged otherwise.
insert_final_step_tree(self, path, frame) ==
    LET slot == final_entry(self, path)
        r == recursive_insert(self, path, frame)
    IN  slot.reached =>
            /\ r.res = Ok <=> slot.entry.tag = "Empty"
            /\ r.res = Ok => Last(recursive_visit(r.node, path)) = FrameEntry(frame)
            /\ r.res = Err => r.node = self

\* The same for insert over the page-table memory.
insert_final_step_mem(pm, vbase, frame) ==
    LET slot == final_pte(pm, vbase, pt_mem_root(pm), 0, level_of_frame_size(frame.size))
        r == pt_map(pm, vbase, frame)
    IN  slot.reached =>
            /\ r.res = Ok <=> ~slot.pte.valid
            /\ r.res = Ok => pt_query(r.pt, vbase) = [res |-> Ok, base |-> vbase, frame |-> frame]
            /\ r.res = Err => r.pt = pm

\* C29: at the final step of insert the new leaf entry is written and Ok is
\* returned exactly when the addressed slot is empty (not valid); when it
\* holds a frame or a child table insert returns Err and writes nothing.
\* This holds for recursive_insert on the tree and for insert over the
\* page-table memory.
C29_InsertFinalStep ==
    \A vbase \in LLVAddrs, frame \in InputFrames :
        aligned(vbase, frame.size) =>
            /\ insert_final_step_tree(
                   root, from_vaddr(vbase, level_of_frame_size(frame.size)), frame)
            /\ insert_final_step_mem(pt_mem, vbase, frame)

\* The shape of the tree after an insert along path that returned Ok:
\* visit(path) on the result has the length of the path, every entry above
\* the last is a Node and the last is the frame; where the tree before held
\* Empty on the way, the nodes from there on are of the next level each and
\* hold Empty in every entry off the path.
insert_ok_shape(self, path, frame) ==
    LET before == recursive_visit(self, path)
        visited == recursive_visit(recursive_insert(self, path, frame).node, path)
    IN  /\ Len(visited) = Len(path)
        /\ \A i \in 1 .. (Len(path) - 1) : visited[i].tag = "Node"
        /\ visited[Len(path)] = FrameEntry(frame)
        /\ \A i \in 1 .. (Len(path) - 1) :
              (i >= Len(before) /\ Last(before).tag = "Empty") =>
                  /\ visited[i].node.level = self.level + i
                  /\ \A idx \in 0 .. (entry_count(self.level + i) - 1) :
                        idx # path[i + 1] => visited[i].node.entries[idx + 1].tag = "Empty"

\* C30: when insert(path, frame) succeeds, every slot on the path above the
\* final step is a Node in the resulting tree (an Empty slot met on the way is
\* replaced by a Node of the next level whose other entries are all Empty),
\* and visit(path) on the result has the length of the path and ends in the
\* frame.
C30_InsertBuildsPath ==
    \A path \in ValidPaths(0), frame \in ValidFrames :
        (/\ is_entry_valid(FrameEntry(frame), root.level + Len(path) - 1)
         /\ recursive_insert(root, path, frame).res = Ok) =>
            insert_ok_shape(root, path, frame)

\* An insert along a path of two steps has just succeeded through a table
\* that holds nothing else.
C30_Witness ==
    /\ last.op = "insert"
    /\ last.res = Ok
    /\ Len(last.arg) = level_count
    /\ LET visited == recursive_visit(root, last.arg)
       IN  /\ Len(visited) = level_count
           /\ visited[1].tag = "Node"
           /\ \A idx \in 0 .. (entry_count(1) - 1) :
                 idx # last.arg[2] => visited[1].node.entries[idx + 1].tag = "Empty"
           /\ visited[level_count] = FrameEntry(last.frame)

-----------------------------------------------------------------------------
(* Properties of remove and visit on the tree (SpecNode).                  *)

\* C31: for every valid path, the path-mapping view after
\* recursive_remove(path) equals the view before with the key path removed,
\* whether remove returns Ok or Err: no mapping stored under another key is
\* removed or altered.
C31_RemoveRemovesPathMapping ==
    \A path \in ValidPaths(0) :
        path_mappings(recursive_remove(root, path).node)
            = map_remove(path_mappings(root), path)

\* The slots in which two nodes of the same shape differ, each as the path
\* that leads to it; two child nodes in the same slot are compared entry by
\* entry.
RECURSIVE changed_slots(_, _)
changed_slots(a, b) ==
    UNION {IF a.entries[i] = b.entries[i]
           THEN {}
           ELSE IF a.entries[i].tag = "Node" /\ b.entries[i].tag = "Node"
                THEN {<<i - 1>> \o p : p \in changed_slots(a.entries[i].node, b.entries[i].node)}
                ELSE {<<i - 1>>} : i \in 1 .. Len(a.entries)}

\* The words in which two page-table memories with the same tables differ,
\* each as the pair of its table and its index.
changed_words(pm1, pm2) ==
    {bi \in {<<base, idx>> : base \in 0 .. (Len(pm1.tables) - 1), idx \in 0 .. (entry_count(0) - 1)} :
        /\ bi[2] < entry_count(table(pm1, bi[1]).level)
        /\ pt_mem_read(pm1, bi[1], bi[2]) # pt_mem_read(pm2, bi[1], bi[2])}

\* A remove on the tree that returned Ok changed one slot, from Frame to
\* Empty, and left every Node on the way to it a Node.
remove_ok_frame_tree(self, path) ==
    LET r == recursive_remove(self, path)
        slots == changed_slots(self, r.node)
    IN  r.res = Ok =>
            /\ Cardinality(slots) = 1
            /\ \A p \in slots :
                  /\ Last(recursive_visit(self, p)).tag = "Frame"
                  /\ Len(recursive_visit(r.node, p)) = Len(p)
                  /\ Last(recursive_visit(r.node, p)) = Empty
                  /\ \A i \in 1 .. (Len(p) - 1) : recursive_visit(r.node, p)[i].tag = "Node"

\* A remove over the page-table memory that returned Ok changed one word,
\* from a frame to the empty entry, and kept every table.
remove_ok_frame_mem(pm, vbase) ==
    LET r == pt_remove(pm, vbase, pt_mem_root(pm), 0)
        words == changed_words(pm, r.pt)
    IN  r.res = Ok =>
            /\ Len(r.pt.tables) = Len(pm.tables)
            /\ \A base \in 0 .. (Len(pm.tables) - 1) :
                  table(r.pt, base).level = table(pm, base).level
            /\ Cardinality(words) = 1
            /\ \A bi \in words :
                  LET old == spec_from_u64(pt_mem_read(pm, bi[1], bi[2]))
                  IN  /\ old.valid
                      /\ old.huge \/ table(pm, bi[1]).level = level_count - 1
                      /\ pt_mem_read(r.pt, bi[1], bi[2]) = spec_to_u64(spec_empty)

\* C32: a successful remove changes exactly one slot, from a frame to Empty:
\* every Node on the path to the removed frame is still a Node afterwards,
\* even when the node it holds has no non-empty entry left, and no table is
\* deallocated.  This is checked for recursive_remove on the tree and for
\* remove over the page-table memory.
C32_RemoveChangesOneSlot ==
    \A vbase \in MemVAddrs :
        /\ remove_ok_frame_tree(root, from_vaddr(vbase, level_count - 1))
        /\ remove_ok_frame_mem(pt_mem, vbase)

\* A remove has just succeeded and left behind a table of the last level
\* without a valid entry, still linked from the root.
C32_Witness ==
    /\ last.op = "remove"
    /\ last.res = Ok
    /\ \E idx \in 0 .. (entry_count(0) - 1) :
          LET pte == spec_from_u64(pt_mem_read(pt_mem, pt_mem_root(pt_mem), idx))
          IN  /\ pte.valid
              /\ ~pte.huge
              /\ pte_index_of_va(last.arg, 0) = idx
              /\ \A i \in 0 .. (entry_count(1) - 1) :
                    ~spec_from_u64(pt_mem_read(pt_mem, pte.addr, i)).valid
              /\ root.entries[idx + 1].tag = "Node"

\* What a visit along path returned: between 1 and Len(path) entries, every
\* entry except the last a Node, and fewer than Len(path) entries exactly when
\* an entry met before the end of the path is Empty or a Frame.
visit_bounds(visited, path) ==
    /\ 1 <= Len(visited)
    /\ Len(visited) <= Len(path)
    /\ \A i \in 1 .. (Len(visited) - 1) : visited[i].tag = "Node"
    /\ Len(visited) < Len(path)
          <=> \E i \in 1 .. Len(visited) :
                 i < Len(path) /\ visited[i].tag \in {"Empty", "Frame"}

\* C33: for every valid path, visit(path) returns between 1 and path.len
\* entries, every entry except the last is a Node, and the visit returns fewer
\* than path.len entries exactly when it met an Empty or a Frame before the
\* path was exhausted.  This is checked for recursive_visit of the node and
\* of the tree model.
C33_VisitBounds ==
    \A path \in ValidPaths(0) :
        /\ visit_bounds(recursive_visit(root, path), path)
        /\ visit_bounds(tree_recursive_visit(root, path), path)

\* The tree holds a block, which stops a visit of two steps after one entry,
\* next to a child node, which a visit of two steps passes through.
C33_Witness ==
    /\ last.op \in {"insert", "remove"}
    /\ \E p \in ValidPaths(0), q \in ValidPaths(0) :
          /\ Len(p) = level_count
          /\ Len(q) = level_count
          /\ Len(recursive_visit(root, p)) = 1
          /\ recursive_visit(root, p)[1].tag = "Frame"
          /\ Len(recursive_visit(root, q)) = level_count
          /\ recursive_visit(root, q)[1].tag = "Node"

-----------------------------------------------------------------------------
(* Uniqueness of the mapping chosen for an address (Spec).                 *)

\* The path mappings that interpret of the tree model builds: every path,
\* among the valid ones, whose visit ends in a frame, of whatever length the
\* visit is.
tree_path_mappings(self) ==
    [path \in {p \in ValidPaths(self.level) :
                  Last(tree_recursive_visit(self, p)).tag = "Frame"} |->
        Last(tree_recursive_visit(self, path)).frame]

\* The tree model read as a map from virtual base to frame.
interpret(self) ==
    LET pm == tree_path_mappings(self)
    IN  [vaddr \in {to_vaddr(p) : p \in DOMAIN pm} |->
            pm[CHOOSE p \in DOMAIN pm : to_vaddr(p) = vaddr]]

\* At most one of the paths has a given virtual base, and at most one of the
\* mappings covers a given address.
unique_resolution(paths, mappings) ==
    /\ \A p1 \in DOMAIN paths, p2 \in DOMAIN paths :
          to_vaddr(p1) = to_vaddr(p2) => p1 = p2
    /\ \A vaddr \in VAddrs :
          \A base1 \in DOMAIN mappings, base2 \in DOMAIN mappings :
              (/\ within(vaddr, base1, mappings[base1].size)
               /\ within(vaddr, base2, mappings[base2].size)) => base1 = base2

\* C34: in every reachable state at most one mapping covers any given virtual
\* address and at most one mapped path has a given virtual base, so the
\* mapping chosen for an address is unique.  This is stated for the path
\* mappings of the node and for those that interpret of the tree model builds.
C34_UniqueResolution ==
    /\ unique_resolution(path_mappings(root), pt_interpret(root))
    /\ unique_resolution(tree_path_mappings(root), interpret(root))

-----------------------------------------------------------------------------
(* The invariants of OSMemoryState (spec/mem.rs) on the low-level states.  *)

pt_mappings_nonoverlap_in_vmem(mappings) ==
    \A base1 \in DOMAIN mappings, base2 \in DOMAIN mappings :
        base1 = base2 \/ ~overlap(base1, mappings[base1].size, base2, mappings[base2].size)

\* As written in the source, on the virtual bases of the two mappings.
pt_mappings_nonoverlap_in_pmem(mappings) ==
    \A base1 \in DOMAIN mappings, base2 \in DOMAIN mappings :
        base1 = base2 \/ ~overlap(base1, mappings[base1].size, base2, mappings[base2].size)

os_invariants(pt, cache) ==
    /\ pt_mappings_nonoverlap_in_vmem(pt_interpret(pt))
    /\ pt_mappings_nonoverlap_in_pmem(pt_interpret(pt))
    /\ tlb_is_submap_of_pt(pt, cache)

\* C35: no state satisfying the invariants of OSMemoryState contains two
\* mappings with distinct virtual bases whose physical ranges
\* [frame.base, frame.base + frame.size) overlap.
C35_InvariantsExcludePhysicalOverlap ==
    os_invariants(root, tlb) =>
        \A base1 \in DOMAIN pt_interpret(root), base2 \in DOMAIN pt_interpret(root) :
            base1 # base2 =>
                ~overlap(pt_interpret(root)[base1].base, pt_interpret(root)[base1].size,
                         pt_interpret(root)[base2].base, pt_interpret(root)[base2].size)

-----------------------------------------------------------------------------
(* Memory contents across map and unmap of the high-level machine.         *)

\* Every word that is in mem before the step and still covered after it holds
\* the same value after the step.
keeps_mapped_contents(s1, s2) ==
    \A vidx \in DOMAIN s1.mem \cap mem_domain_covered_by_mappings(s2) :
        s2.mem[vidx] = s1.mem[vidx]

\* C36: map and unmap of the high-level machine keep the contents of the
\* memory that stays mapped: for every virtual word index that is in mem
\* before the step and is still covered by a mapping after it, the value in
\* mem after a successful map or unmap equals the value before.
C36_MapUnmapKeepContents ==
    /\ \A vaddr \in LLVAddrs, frame \in HLFrames :
          \A m \in HLMemories(map_insert(hl.mappings, vaddr, frame)) :
              LET s2 == HLState(m, map_insert(hl.mappings, vaddr, frame))
              IN  hl_map(hl, s2, vaddr, frame, Result(Ok, None)) => keeps_mapped_contents(hl, s2)
    /\ \A vaddr \in LLVAddrs :
          \A m \in HLMemories(map_remove(hl.mappings, vaddr)) :
              LET s2 == HLState(m, map_remove(hl.mappings, vaddr))
              IN  hl_unmap(hl, s2, vaddr, Result(Ok, None)) => keeps_mapped_contents(hl, s2)

-----------------------------------------------------------------------------
(* The tree view of a page-table memory and the tree invariants (SpecMem). *)

\* Frame entries whose address is not a multiple of the frame size, or lies
\* at the upper bound of the physical memory.
StrayWords ==
    {spec_to_u64(spec_new(a, AttrRW, h)) : a \in {WORD_SIZE \div 2, pmem_ub}, h \in BOOLEAN}

\* The memory with one word replaced by one of these entries.
StrayMems(pm) ==
    {pt_mem_write(pm, base, idx, word) :
        base \in 0 .. (Len(pm.tables) - 1), idx \in 0 .. (entry_count(level_count - 1) - 1),
        word \in StrayWords}

\* The tree view holds, entry by entry, what the words of the tables decode
\* to, each child node being the view of the table its entry points to.
RECURSIVE view_matches_memory(_, _, _)
view_matches_memory(node, pm, base) ==
    /\ node.level = table(pm, base).level
    /\ Len(node.entries) = entry_count(node.level)
    /\ \A i \in 1 .. Len(node.entries) :
          LET pte == spec_from_u64(pt_mem_read(pm, base, i - 1))
          IN  node.entries[i].tag = "Node" =>
                  /\ pte.valid
                  /\ ~pte.huge
                  /\ node.entries[i].node.level = node.level + 1
                  /\ view_matches_memory(node.entries[i].node, pm, pte.addr)

\* C37: for every page-table memory satisfying the page-table invariants, the
\* tree view built from it satisfies the tree invariants: entry counts match,
\* every frame has the frame size of its level with an aligned base inside
\* the physical bounds, and every child node is the view of the table its
\* entry points to at the next level.
C37_ViewImpliesInvariants ==
    \A pm \in {pt_mem} \cup StrayMems(pt_mem) :
        pt_invariants(pm) =>
            /\ invariants(view(pm))
            /\ view_matches_memory(view(pm), pm, pt_mem_root(pm))

-----------------------------------------------------------------------------
(* The page-table invariants along the steps of an insert (SpecPT). *)

\* The memories an insert passes through: the memory it is called on, the
\* memory after each allocation of an intermediate table linked from its
\* parent entry, and the memory after the write at the target level.
RECURSIVE insert_steps(_, _, _, _, _, _)
insert_steps(pm, vbase, base, level, target_level, new_pte) ==
    LET idx == pte_index_of_va(vbase, level)
        pte == spec_from_u64(pt_mem_read(pm, base, idx))
    IN  IF level >= target_level
        THEN IF pte.valid
             THEN {pm, pt_mem_write(pm, base, idx, spec_to_u64(new_pte))}
             ELSE {pm}
        ELSE IF pte.valid
             THEN IF pte.huge
                  THEN {pm}
                  ELSE {pm} \cup insert_steps(pm, vbase, pte.addr, level + 1, target_level, new_pte)
             ELSE LET a == alloc_table(pm, level + 1)
                      linked == pt_mem_write(a.pt_mem, base, idx,
                                             spec_to_u64(spec_new(a.base, AttrDefault, FALSE)))
                  IN  {pm, linked}
                          \cup insert_steps(linked, vbase, a.base, level + 1, target_level, new_pte)

map_steps(pm, vbase, frame) ==
    LET level == level_of_frame_size(frame.size)
    IN  insert_steps(pm, vbase, pt_mem_root(pm), 0, level,
                     spec_new(frame.base, frame.attr, level < level_count - 1))

\* C38: the page-table memory invariants hold after every insert step, the
\* step that allocates an intermediate table and links it from the parent
\* entry included: every valid non-huge entry of a non-leaf table points to a
\* table of the memory whose level is the parent's level plus one, and no
\* valid entry of a last-level table is marked huge.
C38_InsertStepsKeepInvariants ==
    /\ pt_invariants(pt_mem)
    /\ \A vbase \in LLVAddrs, frame \in InputFrames :
          aligned(vbase, frame.size) =>
              /\ \A pm \in map_steps(pt_mem, vbase, frame) : pt_invariants(pm)
              /\ pt_map(pt_mem, vbase, frame).pt \in map_steps(pt_mem, vbase, frame)

\* A map has allocated the table of level 1 and linked it from the root.
C38_Witness ==
    /\ last.op = "map"
    /\ Len(pt_mem.tables) = 2
    /\ spec_from_u64(pt_mem_read(pt_mem, pt_mem_root(pt_mem), 0)).valid
    /\ ~spec_from_u64(pt_mem_read(pt_mem, pt_mem_root(pt_mem), 0)).huge
    /\ spec_from_u64(pt_mem_read(pt_mem, pt_mem_root(pt_mem), 0)).addr = 1

-----------------------------------------------------------------------------
(* PageTableExec::new on the memories of the architecture (SpecMem). *)

\* new wraps the memory it is given and checks nothing.
pt_exec_new(pm) == [pt_mem |-> pm]

\* Valid entries with any table address up to the first one past the tables
\* of the memory, huge or not.
AnyWords ==
    {spec_to_u64(spec_new(a, AttrRW, h)) : a \in 0 .. MaxTables, h \in BOOLEAN}

\* Memories of the architecture: the tables keep their levels and entry
\* counts, one word is any entry.
ArchMems(pm) ==
    {pt_mem_write(pm, base, idx, word) :
        base \in 0 .. (Len(pm.tables) - 1), idx \in 0 .. (entry_count(level_count - 1) - 1),
        word \in AnyWords}

\* C39: PageTableExec::new returns a page table satisfying the page-table
\* invariants for every page-table memory of the architecture of the
\* constants, so map, unmap and query, which wrap the memory they are given
\* with new, always operate on a page table that satisfies the invariants.
C39_NewSatisfiesInvariants ==
    \A pm \in {pt_mem} \cup ArchMems(pt_mem) :
        pt_mem_invariants(pm) => pt_invariants(pt_exec_new(pm).pt_mem)

-----------------------------------------------------------------------------
(* A successful remove and the visit of its path (SpecNode). *)

\* Every index of the path at or after position idx (counted from 0) is zero.
has_zero_tail(path, idx) == \A i \in (idx + 1) .. Len(path) : path[i] = 0

\* C40: for every tree satisfying the invariants and every valid path, if
\* recursive_remove(path) returns Ok then recursive_visit(path) ends in a
\* frame and every index of the path at or after position
\* Len(recursive_visit(path)) is zero, so the virtual base of the removed
\* frame is the address the path encodes.
C40_RemoveOkImpliesVisitReachesFrame ==
    invariants(root) =>
        \A path \in ValidPaths(0) :
            recursive_remove(root, path).res = Ok =>
                /\ Last(recursive_visit(root, path)).tag = "Frame"
                /\ has_zero_tail(path, Len(recursive_visit(root, path)))
                /\ to_vaddr(real_path(root, path)) = to_vaddr(path)

\* After a successful remove, the tree still holds a block that a longer
\* path removes.
C40_Witness ==
    /\ last.op = "remove"
    /\ last.res = Ok
    /\ invariants(root)
    /\ \E path \in ValidPaths(0) :
          /\ recursive_remove(root, path).res = Ok
          /\ Len(recursive_visit(root, path)) < Len(path)

====
